---- MODULE Spec2Model ----
(***************************************************************************)
(* Book rental service: the Book and Rental documents, the Mongoose        *)
(* schema hooks and methods on them, and the request handlers of           *)
(* BookController and RentalController.  A handler is a sequence of        *)
(* awaits; an action is one await (one operation of the store) with the    *)
(* synchronous code on either side of it, and `calls` holds the handlers   *)
(* that stand between two awaits.  The operators named after the handlers  *)
(* (rentBook, returnBook, ...) give what a handler does from a store when  *)
(* nothing else runs between its awaits.                                   *)
(*                                                                         *)
(* A document id is its position in the collection (ids are allocated in   *)
(* creation order and documents are never removed).  The clock `now` is    *)
(* counted in ticks, DayTicks of them to the day; every event happens at   *)
(* a tick.                                                                 *)
(***************************************************************************)
EXTENDS Integers, Sequences, FiniteSets, TLC

\* ------------------------------------------------------------------ bounds
MaxBooks == 1
MaxRentals == 2
MaxCopies == 2
MaxTime == 2
MaxLoan == 1
DayTicks == 2
MaxPage == 2
MaxLimit == 2
MaxCalls == 2
MaxCatalog == 2

\* ------------------------------------------------------- program constants
MinTotalCopies == 1
MaxTotalCopies == 1000
MinAvailableCopies == 0
MinLateFee == 0
LateFeeRate == 1
MaxNotesLength == 500

\* `undefined` for an optional date / an optional number of a request body
NoDate == -1
Undef == -1
\* a Book without isbn / a request body without isbn
NoIsbn == "undefined"
\* the ISBNs of the request bodies
Isbns == {"1", "2"}

\* the place of a title ("Aa", "Bb") in the collation of a sort
TitleRank(title) == IF title = "Aa" THEN 1 ELSE 2

RenterEmails == {"a@x.io", "A@x.io", "b@x.io"}
RentalStatuses == {"active", "returned", "overdue"}
\* a Rental stored without status / a request body without status
NoStatus == "undefined"
\* status of a status update, whose route validates no body: a status of the
\* enum, one outside it, or none
RequestStatuses == RentalStatuses \cup {"lost", NoStatus}
\* notes within the length the schema allows
NotesInputs == {"", "n"}
\* the rent requests carry no notes
SentNotes == {""}
\* bodies of a status update, whose route validates none: any status without
\* notes, and one with notes of MaxNotesLength + 1 characters
StatusBodies ==
  [status : RequestStatuses, notes : SentNotes] \cup
  {[status |-> "overdue",
    notes |->
      "01234567890123456789012345678901234567890123456789012345678901234567890123456789012345678901234567890123456789012345678901234567890123456789012345678901234567890123456789012345678901234567890123456789012345678901234567890123456789012345678901234567890123456789012345678901234567890123456789012345678901234567890123456789012345678901234567890123456789012345678901234567890123456789012345678901234567890123456789012345678901234567890123456789012345678901234567890123456789012345678901234567890123456789x"]}

VARIABLES books, rentals, now, last, calls

vars == <<books, rentals, now, last, calls>>

\* ------------------------------------------------------------------ errors
NoError == [name |-> "", statusCode |-> 0, code |-> 0]

\* what a write rejects with when it breaks a unique index
DuplicateKeyError == [name |-> "MongoServerError", statusCode |-> 0, code |-> 11000]

ApiError(statusCode) == [name |-> "ApiError", statusCode |-> statusCode, code |-> 0]

PlainError == [name |-> "Error", statusCode |-> 0, code |-> 0]

ValidationError == [name |-> "ValidationError", statusCode |-> 0, code |-> 0]

\* the HTTP status the error middleware answers with; statusCode 0 stands
\* for an error object that has none
errorHandler(err) ==
  LET e1 == IF err.name = "CastError" THEN ApiError(400) ELSE err
      e2 == IF err.code = 11000 THEN ApiError(409) ELSE e1
      e3 == IF err.name = "ValidationError" THEN ApiError(400) ELSE e2
      e4 == IF err.name = "JsonWebTokenError" THEN ApiError(401) ELSE e3
      e5 == IF err.name = "TokenExpiredError" THEN ApiError(401) ELSE e4
      e6 == IF e5.statusCode = 0 THEN ApiError(500) ELSE e5
  IN  e6.statusCode

\* ------------------------------------------------------------- arithmetic
\* Math.ceil(a / b) for b > 0
Ceil(a, b) == -((-a) \div b)

\* String.prototype.toLowerCase on the addresses that occur
Lower(s) == IF s = "A@x.io" THEN "a@x.io" ELSE s

\* -------------------------------------------------------------------- Book
\* schema validators of the copy counts, run by save()
BookValid(b) ==
  /\ b.totalCopies >= MinTotalCopies
  /\ b.totalCopies <= MaxTotalCopies
  /\ b.availableCopies >= MinAvailableCopies

BookPreSave(b) ==
  IF b.availableCopies > b.totalCopies
    THEN [b EXCEPT !.availableCopies = b.totalCopies]
    ELSE b

\* document.save(): validation, then the pre-save hook, then the write
BookSave(b) ==
  IF ~BookValid(b)
    THEN [err |-> ValidationError, doc |-> b, saved |-> FALSE]
    ELSE [err |-> NoError, doc |-> BookPreSave(b), saved |-> TRUE]

\* mutant: the count is not looked at
canBeRentedAnyCount(b) == b.isActive


canBeRented(b) == b.isActive /\ b.availableCopies > 0

\* mutant: the copy is not taken
bookRentBookKeeps(b) ==
  IF ~canBeRented(b)
    THEN [err |-> PlainError, doc |-> b, saved |-> FALSE]
    ELSE BookSave(b)


bookRentBook(b) ==
  IF ~canBeRented(b)
    THEN [err |-> PlainError, doc |-> b, saved |-> FALSE]
    ELSE BookSave([b EXCEPT !.availableCopies = @ - 1])

\* mutant: a copy of an inactive Book is not taken back
bookReturnBookActiveOnly(b) ==
  IF ~b.isActive \/ b.availableCopies >= b.totalCopies
    THEN [err |-> PlainError, doc |-> b, saved |-> FALSE]
    ELSE BookSave([b EXCEPT !.availableCopies = @ + 1])


bookReturnBook(b) ==
  IF b.availableCopies >= b.totalCopies
    THEN [err |-> PlainError, doc |-> b, saved |-> FALSE]
    ELSE BookSave([b EXCEPT !.availableCopies = @ + 1])

\* ------------------------------------------------------------------ Rental
daysOverdue(r, t) ==
  IF r.status = "returned" THEN 0
  ELSE LET overdue == Ceil(t - r.dueDate, DayTicks)
       IN  IF overdue > 0 THEN overdue ELSE 0

isOverdue(r, t) == r.status = "active" /\ daysOverdue(r, t) > 0

\* schema validators run by save(), on every path of the document; enum
\* and maxlength pass a path that is not set
RentalValid(r) ==
  /\ r.dueDate > r.rentalDate
  /\ r.returnDate = NoDate \/ r.returnDate >= r.rentalDate
  /\ r.status = NoStatus \/ r.status \in RentalStatuses
  /\ r.lateFee >= MinLateFee
  /\ Len(r.notes) <= MaxNotesLength

\* a Rental loaded as a document: a path the stored document lacks takes
\* its schema default
hydrate(r) == [r EXCEPT !.status = IF @ = NoStatus THEN "active" ELSE @]

RentalPreSave(r, modified, t) ==
  IF "returnDate" \in modified /\ r.returnDate # NoDate
    THEN [r EXCEPT !.status = "returned"]
  ELSE IF r.status = "active" /\ daysOverdue(r, t) > 0
    THEN [r EXCEPT !.status = "overdue"]
  ELSE r

\* document.save() up to its write: validation, then the pre-save hook at
\* t; `paths` are the paths the write will $set, those the handler modified
\* and the status when the hook changed it
RentalSave(r, modified, t) ==
  IF ~RentalValid(r)
    THEN [err |-> ValidationError, doc |-> r, saved |-> FALSE, paths |-> {}]
    ELSE LET r1 == RentalPreSave(r, modified, t)
         IN  [err |-> NoError, doc |-> r1, saved |-> TRUE,
              paths |-> modified \cup
                        (IF r1.status # r.status THEN {"status"} ELSE {})]

\* the paths of a loaded Rental that took a default and so count as
\* modified: a save writes them
hydratePaths(r) == IF r.status = NoStatus THEN {"status"} ELSE {}

\* rental.returnBook() on the document r with the paths `modified`, up to
\* the write of its save(); the returnDate is a fresh instant
rentalReturnBook(r, modified, t) ==
  IF r.status = "returned"
    THEN [err |-> PlainError, doc |-> r, saved |-> FALSE, paths |-> {}]
    ELSE LET r1 == [r EXCEPT !.returnDate = t, !.status = "returned"]
             r2 == IF daysOverdue(r1, t) > 0
                     THEN [r1 EXCEPT !.lateFee = daysOverdue(r1, t) * LateFeeRate]
                     ELSE r1
             m  == modified \cup {"returnDate", "status"} \cup
                   (IF r2.lateFee # r.lateFee THEN {"lateFee"} ELSE {})
         IN  RentalSave(r2, m, t)

\* mutant: the status of the request is not assigned
statusAssignNotesOnly(r0, modified, status, notes, t) ==
  LET r1 == [r0 EXCEPT !.notes = IF notes # "" THEN notes ELSE @]
      m  == modified \cup (IF r1.notes # r0.notes THEN {"notes"} ELSE {})
  IN  RentalSave(r1, m, t)


\* mutant: a status of returned stamps the returnDate
statusAssignStamps(r0, modified, status, notes, t) ==
  LET r1 == [r0 EXCEPT !.status = status,
                       !.returnDate = IF status = "returned" THEN t ELSE @,
                       !.notes = IF notes # "" THEN notes ELSE @]
      m  == modified \cup
            (IF r1.status # r0.status THEN {"status"} ELSE {}) \cup
            (IF r1.returnDate # r0.returnDate THEN {"returnDate"} ELSE {}) \cup
            (IF r1.notes # r0.notes THEN {"notes"} ELSE {})
  IN  RentalSave(r1, m, t)


\* the assignments of updateRentalStatus to the document r0 with the paths
\* `modified`, and rental.save() up to its write.  A status the body lacks
\* is assigned as undefined.
statusAssign(r0, modified, status, notes, t) ==
  LET r1 == [r0 EXCEPT !.status = status,
                       !.notes = IF notes # "" THEN notes ELSE @]
      m  == modified \cup
            (IF r1.status # r0.status THEN {"status"} ELSE {}) \cup
            (IF r1.notes # r0.notes THEN {"notes"} ELSE {})
  IN  RentalSave(r1, m, t)

\* ------------------------------------------------------- writes of a save
\* the write of document.save() on a loaded Rental: $set of `paths` to the
\* values of the document in memory (an undefined value unsets the path)
rentalWrite(stored, paths, doc) ==
  [stored EXCEPT
     !.returnDate = IF "returnDate" \in paths THEN doc.returnDate ELSE @,
     !.status     = IF "status" \in paths THEN doc.status ELSE @,
     !.lateFee    = IF "lateFee" \in paths THEN doc.lateFee ELSE @,
     !.notes      = IF "notes" \in paths THEN doc.notes ELSE @]

\* mutant: the write takes a copy off the count as stored
takeCopyFromStored(stored, doc) ==
  [stored EXCEPT !.availableCopies = @ - 1]


\* mutant: the write takes one copy more than the document holds
takeCopyTwice(stored, doc) ==
  [stored EXCEPT !.availableCopies = doc.availableCopies - 1]


\* the write of book.rentBook(): $set of the modified path availableCopies
\* to the count of the document in memory
takeCopy(stored, doc) ==
  [stored EXCEPT !.availableCopies = doc.availableCopies]

\* the write of book.returnBook(): $set of the modified path
\* availableCopies to the count of the document in memory
giveCopy(stored, doc) ==
  [stored EXCEPT !.availableCopies = doc.availableCopies]

\* book.rentBook() on the document the handler loaded, up to the write
rentBookStep(stored, inMemory) == bookRentBook(inMemory)

\* mutant: the copy is added to the count as stored now, unchecked
returnBookStepBlind(stored, inMemory) ==
  [err |-> NoError,
   doc |-> [inMemory EXCEPT !.availableCopies = stored.availableCopies + 1],
   saved |-> TRUE]


\* rental.book.returnBook() on the document the handler populated, up to
\* the write
returnBookStep(stored, inMemory) == bookReturnBook(inMemory)

\* ------------------------------------------------------------- collections
BookIds == 1..(MaxBooks + 1)
RentalIds == 1..(MaxRentals + 1)

\* Model.findById
Exists(coll, id) == id \in DOMAIN coll

\* mutant: the query compares renterEmail as sent
findActiveRentalUncast(rts, bookId, renterEmail) ==
  {i \in DOMAIN rts : /\ rts[i].book = bookId
                      /\ rts[i].renterEmail = renterEmail
                      /\ rts[i].status = "active"}


\* Rental.findOne({book, renterEmail, status: 'active'}): the query casts
\* renterEmail through the schema's lowercase setter
findActiveRental(rts, bookId, renterEmail) ==
  {i \in DOMAIN rts : /\ rts[i].book = bookId
                      /\ rts[i].renterEmail = Lower(renterEmail)
                      /\ rts[i].status = "active"}

\* new Rental({...}) at t: defaults and setters applied
NewRental(bookId, renterEmail, dueDate, notes, t) ==
  [book |-> bookId, renterEmail |-> Lower(renterEmail), rentalDate |-> t,
   dueDate |-> dueDate, returnDate |-> NoDate, status |-> "active",
   lateFee |-> 0, notes |-> notes]

NewRentalPaths == {"dueDate", "status", "lateFee"}

\* ------------------------------------------------------- RentalController
\* The operators named after the handlers give what a handler served alone
\* does: its awaits answered one after the other from the collections bks
\* and rts, nothing else reaching the store in between.  Each yields the
\* HTTP status and the collections it leaves.
Reply(code, bks, rts) == [code |-> code, books |-> bks, rentals |-> rts]

\* mutant: the copy is taken before the Rental is saved
rentBookWritesBookFirst(bks, rts, t, tSave, bookId, renterEmail, dueDate, notes) ==
  LET b1 == rentBookStep(bks[bookId], bks[bookId])
  IN  IF ~b1.saved THEN Reply(errorHandler(b1.err), bks, rts)
      ELSE
        LET bks1 == [bks EXCEPT ![bookId] = takeCopy(@, b1.doc)]
            rs   == RentalSave(NewRental(bookId, renterEmail, dueDate, notes, t),
                               NewRentalPaths, tSave)
        IN  IF ~rs.saved THEN Reply(errorHandler(rs.err), bks1, rts)
            ELSE Reply(201, bks1, Append(rts, rs.doc))


\* rentBook from `new Rental` on: save the Rental, take the copy, save the
\* Book again.  The clock is read at t when the Rental is built (the
\* default of rentalDate) and again at tSave by the pre-save hook.
rentBookWrites(bks, rts, t, tSave, bookId, renterEmail, dueDate, notes) ==
  LET rs == RentalSave(NewRental(bookId, renterEmail, dueDate, notes, t),
                       NewRentalPaths, tSave)
  IN  IF ~rs.saved THEN Reply(errorHandler(rs.err), bks, rts)
      ELSE
        LET rts1 == Append(rts, rs.doc)
            b1   == rentBookStep(bks[bookId], bks[bookId])
        IN  IF ~b1.saved THEN Reply(errorHandler(b1.err), bks, rts1)
            ELSE
              LET bks1 == [bks EXCEPT ![bookId] = takeCopy(@, b1.doc)]
                  b2   == BookSave(b1.doc)
              IN  IF ~b2.saved THEN Reply(errorHandler(b2.err), bks1, rts1)
                  ELSE Reply(201, bks1, rts1)

rentBook(bks, rts, t, tSave, bookId, renterEmail, dueDate, notes) ==
  IF ~Exists(bks, bookId) THEN Reply(errorHandler(ApiError(404)), bks, rts)
  ELSE IF ~canBeRented(bks[bookId])
    THEN Reply(errorHandler(ApiError(400)), bks, rts)
  ELSE IF findActiveRental(rts, bookId, renterEmail) # {}
    THEN Reply(errorHandler(ApiError(409)), bks, rts)
  ELSE rentBookWrites(bks, rts, t, tSave, bookId, renterEmail, dueDate, notes)

\* mutant: the copy is given back before the Rental is closed
returnBookWritesBookFirst(bks, rts, t, rentalId) ==
  LET bookId == rts[rentalId].book
      b1     == returnBookStep(bks[bookId], bks[bookId])
  IN  IF ~b1.saved THEN Reply(errorHandler(b1.err), bks, rts)
      ELSE
        LET bks1 == [bks EXCEPT ![bookId] = giveCopy(@, b1.doc)]
            r1   == rentalReturnBook(hydrate(rts[rentalId]),
                                     hydratePaths(rts[rentalId]), t)
        IN  IF ~r1.saved THEN Reply(errorHandler(r1.err), bks1, rts)
            ELSE Reply(200, bks1,
                       [rts EXCEPT ![rentalId] = rentalWrite(@, r1.paths, r1.doc)])


\* returnBook from rental.returnBook() on: close the Rental, save it again,
\* give the copy back, save the Book again
returnBookWrites(bks, rts, t, rentalId) ==
  LET r1 == rentalReturnBook(hydrate(rts[rentalId]), hydratePaths(rts[rentalId]), t)
  IN  IF ~r1.saved THEN Reply(errorHandler(r1.err), bks, rts)
      ELSE
        LET rts1 == [rts EXCEPT ![rentalId] = rentalWrite(@, r1.paths, r1.doc)]
            r2   == RentalSave(r1.doc, {}, t)
        IN  IF ~r2.saved THEN Reply(errorHandler(r2.err), bks, rts1)
            ELSE
              LET bookId == rts[rentalId].book
                  b1     == returnBookStep(bks[bookId], bks[bookId])
              IN  IF ~b1.saved THEN Reply(errorHandler(b1.err), bks, rts1)
                  ELSE
                    LET bks1 == [bks EXCEPT ![bookId] = giveCopy(@, b1.doc)]
                        b2   == BookSave(b1.doc)
                    IN  IF ~b2.saved
                          THEN Reply(errorHandler(b2.err), bks1, rts1)
                          ELSE Reply(200, bks1, rts1)

\* mutant: the handler leaves the already-returned check to the model method
returnBookUnguarded(bks, rts, t, rentalId) ==
  IF ~Exists(rts, rentalId) THEN Reply(errorHandler(ApiError(404)), bks, rts)
  ELSE returnBookWrites(bks, rts, t, rentalId)


returnBook(bks, rts, t, rentalId) ==
  IF ~Exists(rts, rentalId) THEN Reply(errorHandler(ApiError(404)), bks, rts)
  ELSE IF hydrate(rts[rentalId]).status = "returned"
    THEN Reply(errorHandler(ApiError(400)), bks, rts)
  ELSE returnBookWrites(bks, rts, t, rentalId)

\* POST /api/rentals/return: validateBody(returnBookSchema), which puts no
\* bound on returnDate, then the handler, which reads rentalId alone from
\* the body
postReturn(bks, rts, t, rentalId, returnDate) ==
  returnBook(bks, rts, t, rentalId)

\* updateRentalStatus from the assignment of status on
updateRentalStatusWrites(bks, rts, t, id, status, notes) ==
  LET rs == statusAssign(hydrate(rts[id]), hydratePaths(rts[id]), status, notes, t)
  IN  IF ~rs.saved THEN Reply(errorHandler(rs.err), bks, rts)
      ELSE Reply(200, bks, [rts EXCEPT ![id] = rentalWrite(@, rs.paths, rs.doc)])

\* mutant: a returned Rental is not refused
updateRentalStatusUnguarded(bks, rts, t, id, status, notes) ==
  IF ~Exists(rts, id) THEN Reply(errorHandler(ApiError(404)), bks, rts)
  ELSE updateRentalStatusWrites(bks, rts, t, id, status, notes)


updateRentalStatus(bks, rts, t, id, status, notes) ==
  IF ~Exists(rts, id) THEN Reply(errorHandler(ApiError(404)), bks, rts)
  ELSE IF hydrate(rts[id]).status = "returned" /\ status # "returned"
    THEN Reply(errorHandler(ApiError(400)), bks, rts)
  ELSE updateRentalStatusWrites(bks, rts, t, id, status, notes)

\* --------------------------------------------------------- BookController
\* createBookSchema, the copy counts
createBookValid(data) ==
  /\ data.isbn # ""
  /\ data.totalCopies >= MinTotalCopies
  /\ data.totalCopies <= MaxTotalCopies
  /\ data.availableCopies >= MinAvailableCopies
  /\ data.availableCopies <= data.totalCopies

\* mutant: the schema declares no unique index on isbn
IsbnIndexAbsent(bks, id, isbn) == TRUE


\* the index { isbn: unique, sparse } admits the write of `isbn` to the Book
\* `id` (0 for an insert): a document without isbn is not indexed
IsbnIndexAdmits(bks, id, isbn) ==
  isbn = NoIsbn \/ \A j \in DOMAIN bks : j # id => bks[j].isbn # isbn

\* truthiness of bodyData.isbn
IsbnGiven(isbn) == isbn # NoIsbn /\ isbn # ""

\* new Book(bookData): isActive takes its default, and timestamps stamps
\* createdAt when the document is saved, at t
NewBook(data, t) ==
  [totalCopies |-> data.totalCopies, availableCopies |-> data.availableCopies,
   isActive |-> TRUE, isbn |-> data.isbn, title |-> data.title, createdAt |-> t]

\* createBook from `new Book` on: await book.save()
createBookSave(bks, rts, t, data) ==
  LET bs == BookSave(NewBook(data, t))
  IN  IF ~bs.saved THEN Reply(errorHandler(bs.err), bks, rts)
      ELSE IF ~IsbnIndexAdmits(bks, 0, bs.doc.isbn)
        THEN Reply(errorHandler(DuplicateKeyError), bks, rts)
      ELSE Reply(201, Append(bks, bs.doc), rts)

createBook(bks, rts, t, data) ==
  IF IsbnGiven(data.isbn) /\ \E j \in DOMAIN bks : bks[j].isbn = data.isbn
    THEN Reply(errorHandler(ApiError(409)), bks, rts)
  ELSE createBookSave(bks, rts, t, data)

\* updateBookSchema, the copy counts and the title; a field that is absent
\* is Undef
updateBookValid(data) ==
  /\ data.fields # {}
  /\ "title" \in data.fields => Len(data.title) >= 2
  /\ "totalCopies" \in data.fields =>
       (data.totalCopies >= MinTotalCopies /\ data.totalCopies <= MaxTotalCopies)
  /\ "availableCopies" \in data.fields =>
       data.availableCopies >= MinAvailableCopies

\* Book.findByIdAndUpdate(id, updateData): $set of the given fields, no
\* save hook and (runValidators: false) no schema validator
findByIdAndUpdate(b, data) ==
  [b EXCEPT
     !.totalCopies     = IF "totalCopies" \in data.fields THEN data.totalCopies ELSE @,
     !.availableCopies = IF "availableCopies" \in data.fields
                           THEN data.availableCopies ELSE @,
     !.isActive        = IF "isActive" \in data.fields THEN data.isActive ELSE @,
     !.isbn            = IF "isbn" \in data.fields THEN data.isbn ELSE @,
     !.title           = IF "title" \in data.fields THEN data.title ELSE @]

updateBook(bks, rts, id, data) ==
  IF /\ "isbn" \in data.fields
     /\ IsbnGiven(data.isbn)
     /\ \E j \in DOMAIN bks : j # id /\ bks[j].isbn = data.isbn
    THEN Reply(errorHandler(ApiError(409)), bks, rts)
  ELSE IF ~Exists(bks, id) THEN Reply(errorHandler(ApiError(404)), bks, rts)
  ELSE
    LET totalCopies == IF "totalCopies" \in data.fields
                         THEN data.totalCopies ELSE bks[id].totalCopies
        b1          == findByIdAndUpdate(bks[id], data)
    IN  IF "availableCopies" \in data.fields /\ data.availableCopies > totalCopies
          THEN Reply(errorHandler(ApiError(400)), bks, rts)
        ELSE IF ~IsbnIndexAdmits(bks, id, b1.isbn)
          THEN Reply(errorHandler(DuplicateKeyError), bks, rts)
        ELSE Reply(200, [bks EXCEPT ![id] = b1], rts)

\* a request body of PUT /api/books/:id without fields
NoUpdate ==
  [fields |-> {}, totalCopies |-> Undef, availableCopies |-> Undef,
   isActive |-> TRUE, isbn |-> NoIsbn, title |-> ""]

\* mutant: the soft delete also withdraws the copies
deleteBookWithdraws(bks, rts, id) ==
  IF ~Exists(bks, id) THEN Reply(errorHandler(ApiError(404)), bks, rts)
  ELSE Reply(200, [bks EXCEPT ![id] =
                     findByIdAndUpdate(bks[id],
                       [NoUpdate EXCEPT !.fields = {"isActive", "availableCopies"},
                                        !.availableCopies = 0,
                                        !.isActive = FALSE])], rts)


\* Book.findByIdAndUpdate(id, {isActive: false}): the handler's one await
deleteBook(bks, rts, id) ==
  IF ~Exists(bks, id) THEN Reply(errorHandler(ApiError(404)), bks, rts)
  ELSE Reply(200, [bks EXCEPT ![id] =
                     findByIdAndUpdate(bks[id],
                       [NoUpdate EXCEPT !.fields = {"isActive"},
                                        !.isActive = FALSE])], rts)

\* --------------------------------------------------- failing storage writes
\* what a save() rejects with when the write does not reach the store
StorageError == [name |-> "MongoNetworkError", statusCode |-> 0, code |-> 0]

\* ------------------------------------------------------------------- reads
\* A read yields the HTTP status, the data of the response and the
\* collections it leaves.
Answer(code, data, bks, rts) ==
  [code |-> code, data |-> data, books |-> bks, rentals |-> rts]

NoData == <<>>

\* The orders in which the store may hand out n documents whose sort keys
\* are equal: tie[i] is the rank of document i among them.  A sort says
\* nothing about documents of equal key, and each query gets an order of
\* its own.
Ties(n) ==
  {p \in [1..n -> 1..n] : \A i, j \in 1..n : i # j => p[i] # p[j]}

\* find(filter).sort({key: dir}): the ids in S by key, ascending for dir = 1
\* and descending for dir = -1, documents of equal key in the order `tie`
OrderBy(S, key, dir, tie) ==
  CHOOSE s \in [1..Cardinality(S) -> S] :
    \A i, j \in 1..Cardinality(S) :
      i < j => \/ dir * key[s[i]] < dir * key[s[j]]
               \/ key[s[i]] = key[s[j]] /\ tie[s[i]] < tie[s[j]]

\* .skip((page - 1) * limit).limit(limit) for a skip of 0 or more; the store
\* takes a limit of 0 as no limit, and the driver sends a limit below 0 as
\* the limit of its absolute value; a lean document is given by its id
pageOf(ids, page, limit) ==
  LET skip == (page - 1) * limit
      most == IF limit < 0 THEN -limit ELSE limit
  IN  SubSeq(ids, skip + 1,
             IF most # 0 /\ skip + most < Len(ids) THEN skip + most
                                                   ELSE Len(ids))

\* the data ApiResponse.paginated answers: the documents found and the
\* pagination computed from the count.  Math.ceil(total / 0) is Infinity, or
\* NaN for a total of 0, and the JSON of the response carries either as
\* null, which NoData stands for
paginated(items, total, limit) ==
  [items      |-> items,
   totalItems |-> total,
   totalPages |-> IF limit = 0 THEN NoData ELSE Ceil(total, limit)]

\* toJSON({virtuals: true}) of a hydrated Rental
rentalToJSON(r, t) ==
  [book |-> r.book, renterEmail |-> r.renterEmail, rentalDate |-> r.rentalDate,
   dueDate |-> r.dueDate, returnDate |-> r.returnDate, status |-> r.status,
   lateFee |-> r.lateFee, notes |-> r.notes,
   daysOverdue |-> daysOverdue(r, t), isOverdue |-> isOverdue(r, t)]

\* mutant: the Rental read is saved back
getRentalByIdSaves(bks, rts, t, id) ==
  IF ~Exists(rts, id) THEN Answer(errorHandler(ApiError(404)), NoData, bks, rts)
  ELSE LET rs == RentalSave(hydrate(rts[id]), hydratePaths(rts[id]), t)
       IN  Answer(200, rentalToJSON(rs.doc, t), bks,
                  [rts EXCEPT ![id] = rentalWrite(@, rs.paths, rs.doc)])


getRentalById(bks, rts, t, id) ==
  IF ~Exists(rts, id) THEN Answer(errorHandler(ApiError(404)), NoData, bks, rts)
  ELSE Answer(200, rentalToJSON(hydrate(rts[id]), t), bks, rts)

\* the filter of getAllRentals; status "" stands for a query without status
rentalsFilter(rts, status) ==
  {i \in DOMAIN rts : status # "" => rts[i].status = status}

\* Rental.find(filter).sort({rentalDate: -1}).skip().limit()
findRentals(rts, page, limit, status, tie) ==
  LET sel        == rentalsFilter(rts, status)
      rentalDate == [i \in sel |-> rts[i].rentalDate]
  IN  pageOf(OrderBy(sel, rentalDate, -1, tie), page, limit)

\* mutant: the filter selects on the stored status alone
overdueFilterStoredOnly(rts, t) ==
  {i \in DOMAIN rts : rts[i].status = "overdue"}


\* the filter of getOverdueRentals, built with the clock at t
overdueFilter(rts, t) ==
  {i \in DOMAIN rts :
     \/ rts[i].status = "active" /\ rts[i].dueDate < t
     \/ rts[i].status = "overdue"}

\* Rental.find(filter).sort({dueDate: 1}).skip().limit()
findOverdue(rts, t, page, limit, tie) ==
  LET sel     == overdueFilter(rts, t)
      dueDate == [i \in sel |-> rts[i].dueDate]
  IN  pageOf(OrderBy(sel, dueDate, 1, tie), page, limit)

\* getOverdueRentals served from one state of the store
getOverdueRentals(bks, rts, t, page, limit, tie) ==
  Answer(200,
         paginated(findOverdue(rts, t, page, limit, tie),
                   Cardinality(overdueFilter(rts, t)), limit),
         bks, rts)

RECURSIVE SumLateFee(_)
SumLateFee(rts) ==
  IF rts = <<>> THEN 0 ELSE Head(rts).lateFee + SumLateFee(Tail(rts))

\* the first aggregate: the `overall` group, its pipeline built at t
overallStats(rts, t) ==
  [totalRentals    |-> Len(rts),
   activeRentals   |-> Cardinality({i \in DOMAIN rts : rts[i].status = "active"}),
   returnedRentals |-> Cardinality({i \in DOMAIN rts : rts[i].status = "returned"}),
   overdueRentals  |->
     Cardinality({i \in DOMAIN rts :
                    \/ rts[i].status = "active" /\ rts[i].dueDate < t
                    \/ rts[i].status = "overdue"}),
   totalLateFees   |-> SumLateFee(rts)]

\* mutant: the default filter does not select on isActive
booksFilterWithInactive(bks) == DOMAIN bks


\* the filter of getAllBooks: no genre, no search
booksFilter(bks) == {i \in DOMAIN bks : bks[i].isActive}

\* Book.find(filter).sort({createdAt: -1}).skip().limit()
findBooks(bks, page, limit, tie) ==
  LET sel       == booksFilter(bks)
      createdAt == [i \in sel |-> bks[i].createdAt]
  IN  pageOf(OrderBy(sel, createdAt, -1, tie), page, limit)

\* the default listing, newest first, served from one state of the store
getAllBooks(bks, rts, page, limit, tie) ==
  Answer(200,
         paginated(findBooks(bks, page, limit, tie),
                   Cardinality(booksFilter(bks)), limit),
         bks, rts)

\* Book.findById: the handler's one await
getBookById(bks, rts, id) ==
  IF ~Exists(bks, id) THEN Answer(errorHandler(ApiError(404)), NoData, bks, rts)
  ELSE Answer(200, bks[id], bks, rts)

\* the filter of getAvailableBooks: no genre, no search
availableFilter(bks) ==
  {i \in DOMAIN bks : bks[i].isActive /\ bks[i].availableCopies > 0}

\* Book.find(filter).sort({title: 1}).skip().limit().  No validateQuery
\* stands before this handler, so page and limit are the integers the
\* query string gave: the store rejects the find whose skip is negative
findAvailable(bks, page, limit, tie) ==
  LET sel   == availableFilter(bks)
      title == [i \in sel |-> TitleRank(bks[i].title)]
  IN  IF (page - 1) * limit < 0
        THEN [found |-> FALSE, items |-> <<>>,
              err |-> [name |-> "MongoServerError", statusCode |-> 0,
                       code |-> 51024]]
        ELSE [found |-> TRUE, err |-> PlainError,
              items |-> pageOf(OrderBy(sel, title, 1, tie), page, limit)]

\* the available listing, by title, served from one state of the store
getAvailableBooks(bks, rts, page, limit, tie) ==
  LET out == findAvailable(bks, page, limit, tie)
  IN  IF ~out.found THEN Answer(errorHandler(out.err), NoData, bks, rts)
      ELSE Answer(200,
                  paginated(out.items, Cardinality(availableFilter(bks)), limit),
                  bks, rts)

\* ---------------------------------------------------- requests in flight
\* `calls` holds the requests being served: where each handler stands
\* between two awaits, and what it holds in memory.
CallIds == 1..MaxCalls

NoBook ==
  [totalCopies |-> 0, availableCopies |-> 0, isActive |-> FALSE,
   isbn |-> NoIsbn, title |-> "", createdAt |-> 0]

\* a handler not yet entered.  `book` is the Book document in memory and
\* `seen` the Book as it was loaded; `rental` is the Rental document in
\* memory and `paths` its modified paths; `data` is the body of an update
\* and `create` the body of a create; `at` is the clock a read took when it
\* built its filter, `got` the queries of a listing that the store has
\* answered, `items` and `total` their results.
Idle ==
  [pc |-> "idle", op |-> "", bookId |-> 0, renterEmail |-> "",
   dueDate |-> NoDate, rentalId |-> 0, status |-> "", notes |-> "",
   data |-> NoUpdate,
   create |-> [totalCopies |-> 0, availableCopies |-> 0, isbn |-> NoIsbn,
               title |-> ""],
   seen |-> NoBook, book |-> NoBook,
   rental |-> NewRental(0, "", NoDate, "", 0), paths |-> {},
   page |-> 0, limit |-> 0, at |-> 0, got |-> {}, items |-> <<>>, total |-> 0,
   stats |-> NoData]

Free(c) == calls[c].pc = "idle"

\* a request that arrives is held in the first free place
Slot(c) == Free(c) /\ \A d \in 1..(c - 1) : ~Free(d)

\* no request is being served
Quiet == \A c \in CallIds : Free(c)

\* call c stands in handler op before the await pc
At(c, op, pc) == calls[c].op = op /\ calls[c].pc = pc

\* ----------------------------------------------------------------- actions
\* `last` is the handler that answered last, the HTTP status and the data
\* it answered with.
Read(op, code, data) == [op |-> op, code |-> code, data |-> data]

Served(op, code) == Read(op, code, NoData)

\* the handler of call c answers, and the call is over
RespondData(c, data, code) ==
  /\ calls' = [calls EXCEPT ![c] = Idle]
  /\ last' = Read(calls[c].op, code, data)

Respond(c, code) == RespondData(c, NoData, code)

\* the handler of call c goes on to its next await, holding rec
Hold(c, rec) ==
  /\ calls' = [calls EXCEPT ![c] = rec]
  /\ UNCHANGED last

\* dueDate of a rent request whose first query is served at t:
\* rentBookSchema admitted a date after the instant the request entered,
\* which is t or lies before it
SentDueDates(t) == {d \in t..(t + MaxLoan) : d > 0}

\* dueDate of a rent request as the Rental is built at t: the instant of
\* validation lies before, so the dueDate may have been reached
DueDates(t) == t..(t + MaxLoan)

Init ==
  /\ books = <<>>
  /\ rentals = <<>>
  /\ now = 0
  /\ last = Served("init", 0)
  /\ calls = [c \in CallIds |-> Idle]

Tick ==
  /\ now < MaxTime
  /\ now' = now + 1
  /\ UNCHANGED <<books, rentals, last, calls>>

\* POST /api/books: validateBody(createBookSchema), then the handler
postBook(bks, rts, t, data) ==
  IF createBookValid(data) THEN createBook(bks, rts, t, data)
  ELSE Reply(errorHandler(ApiError(400)), bks, rts)

\* PUT /api/books/:id: validateBody(updateBookSchema), then the handler
putBook(bks, rts, id, data) ==
  IF updateBookValid(data) THEN updateBook(bks, rts, id, data)
  ELSE Reply(errorHandler(ApiError(400)), bks, rts)

\* ------------------------------------------------------------- createBook

\* new Book(bookData); book.save() up to the write: validation and the
\* pre-save hook, at the instant the handler calls it
CreateBuild(c, data) ==
  LET bs == BookSave(NewBook(data, now))
  IN  IF ~bs.saved
        THEN /\ calls' = [calls EXCEPT ![c] = Idle]
             /\ last' = Served("createBook", errorHandler(bs.err))
      ELSE Hold(c, [calls[c] EXCEPT !.pc = "saveBook", !.op = "createBook",
                                    !.create = data, !.book = bs.doc])

\* the request enters: validateBody(createBookSchema), then the handler up
\* to its first await, the isbn query when the body has an isbn and
\* book.save() when it has none.  A catalogue holds at most max Books.
CreateArrive(c, data, max) ==
  /\ Slot(c)
  /\ Len(books) + Cardinality({k \in CallIds : calls[k].op = "createBook"}) < max
  /\ IF ~createBookValid(data)
       THEN /\ last' = Served("createBook", errorHandler(ApiError(400)))
            /\ UNCHANGED calls
     ELSE IF IsbnGiven(data.isbn)
       THEN Hold(c, [Idle EXCEPT !.pc = "findIsbn", !.op = "createBook",
                                 !.create = data])
     ELSE CreateBuild(c, data)
  /\ UNCHANGED <<books, rentals, now>>

\* await Book.findOne({isbn}), then new Book and save() up to the write
CreateFindIsbn(c) ==
  /\ At(c, "createBook", "findIsbn")
  /\ IF \E j \in DOMAIN books : books[j].isbn = calls[c].create.isbn
       THEN Respond(c, errorHandler(ApiError(409)))
       ELSE CreateBuild(c, calls[c].create)
  /\ UNCHANGED <<books, rentals, now>>

\* await book.save(): the insert reaches the store, which checks the unique
\* index; the handler answers 201
CreateSaveBook(c) ==
  /\ At(c, "createBook", "saveBook")
  /\ IF ~IsbnIndexAdmits(books, 0, calls[c].book.isbn)
       THEN Respond(c, errorHandler(DuplicateKeyError)) /\ UNCHANGED books
       ELSE books' = Append(books, calls[c].book) /\ Respond(c, 201)
  /\ UNCHANGED <<rentals, now>>

\* ------------------------------------------------------------- updateBook
UpdateAnswer(c, code) ==
  /\ calls' = [calls EXCEPT ![c] = Idle]
  /\ last' = Served("updateBook", code)

\* Book.findById(id) is answered: the check of availableCopies against the
\* body's totalCopies or the loaded one, then findByIdAndUpdate is sent
UpdateFound(c, id, data) ==
  IF ~Exists(books, id) THEN UpdateAnswer(c, errorHandler(ApiError(404)))
  ELSE IF /\ "availableCopies" \in data.fields
          /\ data.availableCopies >
               (IF "totalCopies" \in data.fields
                  THEN data.totalCopies ELSE books[id].totalCopies)
    THEN UpdateAnswer(c, errorHandler(ApiError(400)))
  ELSE Hold(c, [Idle EXCEPT !.pc = "writeBook", !.op = "updateBook",
                            !.bookId = id, !.data = data,
                            !.seen = books[id], !.book = books[id]])

\* the request enters: validateBody(updateBookSchema), then the handler
\* through its first await, Book.findOne({isbn, _id: {$ne: id}}) when the
\* body has an isbn and Book.findById(id) when it has none
UpdateBook(c, id, data) ==
  /\ Slot(c)
  /\ IF ~updateBookValid(data)
       THEN UpdateAnswer(c, errorHandler(ApiError(400)))
     ELSE IF "isbn" \in data.fields /\ IsbnGiven(data.isbn)
       THEN IF \E j \in DOMAIN books : j # id /\ books[j].isbn = data.isbn
              THEN UpdateAnswer(c, errorHandler(ApiError(409)))
              ELSE Hold(c, [Idle EXCEPT !.pc = "findCurrent", !.op = "updateBook",
                                        !.bookId = id, !.data = data])
     ELSE UpdateFound(c, id, data)
  /\ UNCHANGED <<books, rentals, now>>

\* await Book.findById(id), after the isbn query
UpdateFindCurrent(c) ==
  /\ At(c, "updateBook", "findCurrent")
  /\ UpdateFound(c, calls[c].bookId, calls[c].data)
  /\ UNCHANGED <<books, rentals, now>>

\* await Book.findByIdAndUpdate(id, updateData), applied to the Book as
\* stored at that moment; the handler answers 200
UpdateWriteBook(c) ==
  /\ At(c, "updateBook", "writeBook")
  /\ LET id == calls[c].bookId
         b1 == findByIdAndUpdate(books[id], calls[c].data)
     IN  IF ~IsbnIndexAdmits(books, id, b1.isbn)
           THEN Respond(c, errorHandler(DuplicateKeyError)) /\ UNCHANGED books
           ELSE books' = [books EXCEPT ![id] = b1] /\ Respond(c, 200)
  /\ UNCHANGED <<rentals, now>>

\* ------------------------------------------------------------- deleteBook
DeleteBook(id) ==
  /\ LET out == deleteBook(books, rentals, id)
     IN  /\ books' = out.books
         /\ rentals' = out.rentals
         /\ last' = Served("deleteBook", out.code)
  /\ UNCHANGED <<now, calls>>

\* ---------------------------------------------------------------- rentBook
\* the request enters (validateBody(rentBookSchema), then the handler) and
\* await Book.findById(bookId) is answered; the checks made on the document
RentFindBook(c, bookId, renterEmail, dueDate) ==
  /\ Slot(c)
  /\ Len(rentals)
       + Cardinality({k \in CallIds :
                        /\ calls[k].op = "rentBook"
                        /\ calls[k].pc \in {"findRental", "validate", "saveRental"}})
     < MaxRentals
  /\ IF ~Exists(books, bookId)
       THEN last' = Served("rentBook", errorHandler(ApiError(404))) /\ UNCHANGED calls
     ELSE IF ~canBeRented(books[bookId])
       THEN last' = Served("rentBook", errorHandler(ApiError(400))) /\ UNCHANGED calls
     ELSE Hold(c, [Idle EXCEPT !.pc = "findRental", !.op = "rentBook",
                               !.bookId = bookId, !.renterEmail = renterEmail,
                               !.dueDate = dueDate,
                               !.seen = books[bookId], !.book = books[bookId]])
  /\ UNCHANGED <<books, rentals, now>>

\* await Rental.findOne(...) is answered; then new Rental(...), whose
\* rentalDate takes the clock, and rental.save() is called
RentFindRental(c) ==
  /\ At(c, "rentBook", "findRental")
  /\ IF findActiveRental(rentals, calls[c].bookId, calls[c].renterEmail) # {}
       THEN Respond(c, errorHandler(ApiError(409)))
       ELSE Hold(c, [calls[c] EXCEPT
                       !.pc = "validate",
                       !.rental = NewRental(calls[c].bookId, calls[c].renterEmail,
                                            calls[c].dueDate, calls[c].notes, now)])
  /\ UNCHANGED <<books, rentals, now>>

\* rental.save() up to its write: validation and the pre-save hook, which
\* run on a later turn of the event loop and read the clock again
RentValidate(c) ==
  /\ At(c, "rentBook", "validate")
  /\ LET rs == RentalSave(calls[c].rental, NewRentalPaths, now)
     IN  IF ~rs.saved THEN Respond(c, errorHandler(rs.err))
         ELSE Hold(c, [calls[c] EXCEPT !.pc = "saveRental", !.rental = rs.doc])
  /\ UNCHANGED <<books, rentals, now>>

\* await rental.save(): the insert reaches the store; then book.rentBook()
\* up to its write
RentSaveRental(c) ==
  /\ At(c, "rentBook", "saveRental")
  /\ rentals' = Append(rentals, calls[c].rental)
  /\ LET b1 == rentBookStep(books[calls[c].bookId], calls[c].book)
     IN  IF ~b1.saved THEN Respond(c, errorHandler(b1.err))
         ELSE Hold(c, [calls[c] EXCEPT !.pc = "rentBook", !.book = b1.doc])
  /\ UNCHANGED <<books, now>>

\* await book.rentBook(): the write reaches the store; then book.save() up
\* to its write, of which there is none, no path being modified
RentTakeCopy(c) ==
  /\ At(c, "rentBook", "rentBook")
  /\ books' = [books EXCEPT ![calls[c].bookId] = takeCopy(@, calls[c].book)]
  /\ LET b2 == BookSave(calls[c].book)
     IN  IF ~b2.saved THEN Respond(c, errorHandler(b2.err))
         ELSE Hold(c, [calls[c] EXCEPT !.pc = "saveBook", !.book = b2.doc])
  /\ UNCHANGED <<rentals, now>>

\* await book.save(), which wrote nothing; then rental.populate is sent
RentSaveBook(c) ==
  /\ At(c, "rentBook", "saveBook")
  /\ Hold(c, [calls[c] EXCEPT !.pc = "populate"])
  /\ UNCHANGED <<books, rentals, now>>

\* await rental.populate('book', ...): the Book is read, and the handler
\* answers 201
RentPopulate(c) ==
  /\ At(c, "rentBook", "populate")
  /\ Respond(c, 201)
  /\ UNCHANGED <<books, rentals, now>>

\* -------------------------------------------------------------- returnBook
\* the request enters (validateBody(returnBookSchema), then the handler)
\* and Rental.findById(rentalId), the first query of the awaited chain, is
\* answered; when it finds no Rental there is nothing to populate
ReturnFindRental(c, rentalId) ==
  /\ Slot(c)
  /\ IF ~Exists(rentals, rentalId)
       THEN last' = Served("returnBook", errorHandler(ApiError(404))) /\ UNCHANGED calls
       ELSE Hold(c, [Idle EXCEPT !.pc = "populate", !.op = "returnBook",
                                 !.rentalId = rentalId,
                                 !.rental = hydrate(rentals[rentalId]),
                                 !.paths = hydratePaths(rentals[rentalId]),
                                 !.bookId = rentals[rentalId].book])
  /\ UNCHANGED <<books, rentals, now>>

\* .populate('book'): the second query; then the check made on the Rental,
\* and rental.returnBook() up to its write
ReturnPopulate(c) ==
  /\ At(c, "returnBook", "populate")
  /\ IF calls[c].rental.status = "returned"
       THEN Respond(c, errorHandler(ApiError(400)))
       ELSE LET r1 == rentalReturnBook(calls[c].rental, calls[c].paths, now)
            IN  IF ~r1.saved THEN Respond(c, errorHandler(r1.err))
                ELSE Hold(c, [calls[c] EXCEPT !.pc = "closeRental",
                                              !.rental = r1.doc,
                                              !.paths = r1.paths,
                                              !.seen = books[calls[c].bookId],
                                              !.book = books[calls[c].bookId]])
  /\ UNCHANGED <<books, rentals, now>>

\* await rental.returnBook(): the write reaches the store; then
\* rental.save() up to its write, of which there is none
ReturnCloseRental(c) ==
  /\ At(c, "returnBook", "closeRental")
  /\ rentals' = [rentals EXCEPT ![calls[c].rentalId] =
                   rentalWrite(@, calls[c].paths, calls[c].rental)]
  /\ LET r2 == RentalSave(calls[c].rental, {}, now)
     IN  IF ~r2.saved THEN Respond(c, errorHandler(r2.err))
         ELSE Hold(c, [calls[c] EXCEPT !.pc = "saveRental", !.paths = {}])
  /\ UNCHANGED <<books, now>>

\* await rental.save(), which wrote nothing; then rental.book.returnBook()
\* up to its write
ReturnSaveRental(c) ==
  /\ At(c, "returnBook", "saveRental")
  /\ LET b1 == returnBookStep(books[calls[c].bookId], calls[c].book)
     IN  IF ~b1.saved THEN Respond(c, errorHandler(b1.err))
         ELSE Hold(c, [calls[c] EXCEPT !.pc = "giveCopy", !.book = b1.doc])
  /\ UNCHANGED <<books, rentals, now>>

\* await rental.book.returnBook(): the write reaches the store; then
\* rental.book.save() up to its write, of which there is none
ReturnGiveCopy(c) ==
  /\ At(c, "returnBook", "giveCopy")
  /\ books' = [books EXCEPT ![calls[c].bookId] = giveCopy(@, calls[c].book)]
  /\ LET b2 == BookSave(calls[c].book)
     IN  IF ~b2.saved THEN Respond(c, errorHandler(b2.err))
         ELSE Hold(c, [calls[c] EXCEPT !.pc = "saveBook", !.book = b2.doc])
  /\ UNCHANGED <<rentals, now>>

\* await rental.book.save(), which wrote nothing; the handler answers 200
ReturnSaveBook(c) ==
  /\ At(c, "returnBook", "saveBook")
  /\ Respond(c, 200)
  /\ UNCHANGED <<books, rentals, now>>

\* ------------------------------------------------------ updateRentalStatus
\* the request enters (the route validates no body) and await
\* Rental.findById(id) is answered; then the check made on the document,
\* the assignments and rental.save() up to its write
StatusFindRental(c, id, status, notes) ==
  /\ Slot(c)
  /\ IF ~Exists(rentals, id)
       THEN /\ last' = Served("updateRentalStatus", errorHandler(ApiError(404)))
            /\ UNCHANGED calls
     ELSE IF hydrate(rentals[id]).status = "returned" /\ status # "returned"
       THEN /\ last' = Served("updateRentalStatus", errorHandler(ApiError(400)))
            /\ UNCHANGED calls
     ELSE LET rs == statusAssign(hydrate(rentals[id]), hydratePaths(rentals[id]),
                                 status, notes, now)
          IN  IF ~rs.saved
                THEN /\ last' = Served("updateRentalStatus", errorHandler(rs.err))
                     /\ UNCHANGED calls
                ELSE Hold(c, [Idle EXCEPT !.pc = "saveStatus",
                                          !.op = "updateRentalStatus",
                                          !.rentalId = id, !.status = status,
                                          !.notes = notes,
                                          !.rental = rs.doc,
                                          !.paths = rs.paths])
  /\ UNCHANGED <<books, rentals, now>>

\* await rental.save(): the write reaches the store (a status that is the
\* default taken on load is written as well), and the handler answers 200
StatusSave(c) ==
  /\ At(c, "updateRentalStatus", "saveStatus")
  /\ rentals' = [rentals EXCEPT ![calls[c].rentalId] =
                   rentalWrite(@, calls[c].paths, calls[c].rental)]
  /\ Respond(c, 200)
  /\ UNCHANGED <<books, now>>

\* ------------------------------------------------------------ read actions
Pages == 1..MaxPage
Limits == 1..MaxLimit

\* a query of the listing of call c is answered: find, the populate that
\* follows it, or the count that Promise.all sends beside them; the handler
\* answers when all of them are
ListStep(c, got, items, total) ==
  IF got = {"find", "populate", "count"}
    THEN RespondData(c, paginated(items, total, calls[c].limit), 200)
    ELSE Hold(c, [calls[c] EXCEPT !.got = got, !.items = items, !.total = total])

\* the request of a listing enters: the handler builds its filter, reading
\* the clock where the filter has a date, and sends its queries
ListArrive(c, op, page, limit, status) ==
  /\ Slot(c)
  /\ Hold(c, [Idle EXCEPT !.pc = "list", !.op = op, !.page = page,
                          !.limit = limit, !.status = status, !.at = now])
  /\ UNCHANGED <<books, rentals, now>>

\* populate('book', ...) of the Rentals found: a query on the Books, not
\* sent when no Rental was found
ListPopulate(c, op) ==
  /\ At(c, op, "list")
  /\ "find" \in calls[c].got
  /\ "populate" \notin calls[c].got
  /\ ListStep(c, calls[c].got \cup {"populate"}, calls[c].items, calls[c].total)
  /\ UNCHANGED <<books, rentals, now>>

\* a find is answered with items: a populate follows when there are any
Found(c, items) ==
  calls[c].got \cup {"find"} \cup (IF items = <<>> THEN {"populate"} ELSE {})

GetAllRentalsArrive(c, page, limit, status) ==
  ListArrive(c, "getAllRentals", page, limit, status)

GetAllRentalsFind(c, tie) ==
  /\ At(c, "getAllRentals", "list")
  /\ "find" \notin calls[c].got
  /\ LET items == findRentals(rentals, calls[c].page, calls[c].limit,
                              calls[c].status, tie)
     IN  ListStep(c, Found(c, items), items, calls[c].total)
  /\ UNCHANGED <<books, rentals, now>>

GetAllRentalsPopulate(c) == ListPopulate(c, "getAllRentals")

GetAllRentalsCount(c) ==
  /\ At(c, "getAllRentals", "list")
  /\ "count" \notin calls[c].got
  /\ ListStep(c, calls[c].got \cup {"count"}, calls[c].items,
              Cardinality(rentalsFilter(rentals, calls[c].status)))
  /\ UNCHANGED <<books, rentals, now>>

GetOverdueRentalsArrive(c, page, limit) ==
  ListArrive(c, "getOverdueRentals", page, limit, "")

GetOverdueRentalsFind(c, tie) ==
  /\ At(c, "getOverdueRentals", "list")
  /\ "find" \notin calls[c].got
  /\ LET items == findOverdue(rentals, calls[c].at, calls[c].page,
                              calls[c].limit, tie)
     IN  ListStep(c, Found(c, items), items, calls[c].total)
  /\ UNCHANGED <<books, rentals, now>>

GetOverdueRentalsPopulate(c) == ListPopulate(c, "getOverdueRentals")

GetOverdueRentalsCount(c) ==
  /\ At(c, "getOverdueRentals", "list")
  /\ "count" \notin calls[c].got
  /\ ListStep(c, calls[c].got \cup {"count"}, calls[c].items,
              Cardinality(overdueFilter(rentals, calls[c].at)))
  /\ UNCHANGED <<books, rentals, now>>

\* the request enters and Rental.findById(id), the first query of the
\* awaited chain, is answered
GetRentalFind(c, id) ==
  /\ Slot(c)
  /\ IF ~Exists(rentals, id)
       THEN last' = Served("getRentalById", errorHandler(ApiError(404))) /\ UNCHANGED calls
       ELSE Hold(c, [Idle EXCEPT !.pc = "populate", !.op = "getRentalById",
                                 !.rentalId = id,
                                 !.rental = hydrate(rentals[id])])
  /\ UNCHANGED <<books, rentals, now>>

\* .populate('book', ...): the second query; the handler answers the
\* document, its virtuals computed as it is serialised
GetRentalPopulate(c) ==
  /\ At(c, "getRentalById", "populate")
  /\ RespondData(c, rentalToJSON(calls[c].rental, now), 200)
  /\ UNCHANGED <<books, rentals, now>>

\* the request enters and await Rental.aggregate([...]), the `overall`
\* group, is answered; its pipeline was built, with the clock in it, at the
\* instant `at` the request entered
GetRentalStatsOverall(c, at) ==
  /\ Slot(c)
  /\ Hold(c, [Idle EXCEPT !.pc = "monthly", !.op = "getRentalStats", !.at = at,
                          !.stats = overallStats(rentals, at)])
  /\ UNCHANGED <<books, rentals, now>>

\* await Rental.aggregate([...]): the monthly counts; the handler answers
GetRentalStatsMonthly(c) ==
  /\ At(c, "getRentalStats", "monthly")
  /\ RespondData(c, calls[c].stats, 200)
  /\ UNCHANGED <<books, rentals, now>>

GetAllBooksArrive(c, page, limit) ==
  ListArrive(c, "getAllBooks", page, limit, "")

\* Book.find(...).lean(): no populate follows
GetAllBooksFind(c, tie) ==
  /\ At(c, "getAllBooks", "list")
  /\ "find" \notin calls[c].got
  /\ ListStep(c, calls[c].got \cup {"find", "populate"},
              findBooks(books, calls[c].page, calls[c].limit, tie),
              calls[c].total)
  /\ UNCHANGED <<books, rentals, now>>

GetAllBooksCount(c) ==
  /\ At(c, "getAllBooks", "list")
  /\ "count" \notin calls[c].got
  /\ ListStep(c, calls[c].got \cup {"count"}, calls[c].items,
              Cardinality(booksFilter(books)))
  /\ UNCHANGED <<books, rentals, now>>

\* the route has no validateQuery: page and limit are what parseInt reads
\* in the query string
GetAvailableBooksArrive(c, page, limit) ==
  ListArrive(c, "getAvailableBooks", page, limit, "")

\* the find is answered; when the store rejects it Promise.all rejects and
\* the handler hands the error to the error middleware at once, whether or
\* not the count was answered
GetAvailableBooksFind(c, tie) ==
  /\ At(c, "getAvailableBooks", "list")
  /\ "find" \notin calls[c].got
  /\ LET out == findAvailable(books, calls[c].page, calls[c].limit, tie)
     IN  IF ~out.found THEN Respond(c, errorHandler(out.err))
         ELSE ListStep(c, calls[c].got \cup {"find", "populate"}, out.items,
                       calls[c].total)
  /\ UNCHANGED <<books, rentals, now>>

GetAvailableBooksCount(c) ==
  /\ At(c, "getAvailableBooks", "list")
  /\ "count" \notin calls[c].got
  /\ ListStep(c, calls[c].got \cup {"count"}, calls[c].items,
              Cardinality(availableFilter(books)))
  /\ UNCHANGED <<books, rentals, now>>

GetBookById(id) ==
  /\ LET out == getBookById(books, rentals, id)
     IN  /\ books' = out.books
         /\ rentals' = out.rentals
         /\ last' = Read("getBookById", out.code, out.data)
  /\ UNCHANGED <<now, calls>>

\* ----------------------------------------------------------- fault actions
\* What a save() rejects with when the write does not reach the store: the
\* write of call c fails, nothing is written and the handler answers the
\* error.
RentSaveRentalFails(c) ==
  /\ At(c, "rentBook", "saveRental")
  /\ Respond(c, errorHandler(StorageError))
  /\ UNCHANGED <<books, rentals, now>>

RentTakeCopyFails(c) ==
  /\ At(c, "rentBook", "rentBook")
  /\ Respond(c, errorHandler(StorageError))
  /\ UNCHANGED <<books, rentals, now>>

ReturnCloseRentalFails(c) ==
  /\ At(c, "returnBook", "closeRental")
  /\ Respond(c, errorHandler(StorageError))
  /\ UNCHANGED <<books, rentals, now>>

ReturnGiveCopyFails(c) ==
  /\ At(c, "returnBook", "giveCopy")
  /\ Respond(c, errorHandler(StorageError))
  /\ UNCHANGED <<books, rentals, now>>

\* ------------------------------------------------------------ request sets
\* request bodies of POST /api/books (the copy counts, the isbn, the title)
CreateDataWith(isbns, titles) ==
  {d \in [totalCopies : 0..MaxCopies, availableCopies : 0..(MaxCopies + 1),
          isbn : isbns, title : titles] :
     d.availableCopies <= d.totalCopies + 1}

\* the bodies the rental specifications send carry no isbn
CreateData == CreateDataWith({NoIsbn}, {"Aa"})

\* bodies of POST /api/books that put every copy on the shelf
FullCreateData == {d \in CreateData : d.availableCopies = d.totalCopies}

\* the body of a Book of MaxCopies copies, all on the shelf
ShelfData == {d \in FullCreateData : d.totalCopies = MaxCopies}

\* request bodies of PUT /api/books/:id; a field not in `fields` is absent.
\* isActive is sent alone: with copy counts it acts as the two requests do.
UpdateData ==
  {d \in [fields : SUBSET {"totalCopies", "availableCopies", "isActive"},
          totalCopies : {Undef} \cup (1..MaxCopies),
          availableCopies : {Undef} \cup (0..MaxCopies),
          isActive : BOOLEAN,
          isbn : {NoIsbn},
          title : {""}] :
     /\ ("totalCopies" \in d.fields) = (d.totalCopies # Undef)
     /\ ("availableCopies" \in d.fields) = (d.availableCopies # Undef)
     /\ "isActive" \notin d.fields => d.isActive
     /\ "isActive" \in d.fields => d.fields = {"isActive"}}

\* one renter
OneEmail == {"a@x.io"}

CatalogIds == 1..(MaxCatalog + 1)

\* request bodies of POST /api/books whose isbn is absent, an ISBN, or the
\* empty string
CatalogCreateData == CreateDataWith({NoIsbn, ""} \cup Isbns, {"Aa"})

\* the handlers that write nothing
ReadOps ==
  {"getRentalById", "getAllRentals", "getOverdueRentals", "getRentalStats",
   "getAllBooks", "getAvailableBooks", "getBookById"}

\* a read is being served / a request that is no read is being served
Reading == \E c \in CallIds : calls[c].op \in ReadOps

Writing == \E c \in CallIds : ~Free(c) /\ calls[c].op \notin ReadOps

\* --------------------------------------------------------- specifications
\* Every specification serves its requests concurrently, MaxCalls of them
\* at a time and each advancing one await at a step, unless it says that a
\* request enters only when none is being served.

\* the awaits of the rent calls in flight
RentAwaits ==
  \/ \E c \in CallIds : RentFindRental(c)
  \/ \E c \in CallIds : RentValidate(c)
  \/ \E c \in CallIds : RentSaveRental(c)
  \/ \E c \in CallIds : RentTakeCopy(c)
  \/ \E c \in CallIds : RentSaveBook(c)
  \/ \E c \in CallIds : RentPopulate(c)

\* the awaits of the return calls in flight
ReturnAwaits ==
  \/ \E c \in CallIds : ReturnPopulate(c)
  \/ \E c \in CallIds : ReturnCloseRental(c)
  \/ \E c \in CallIds : ReturnSaveRental(c)
  \/ \E c \in CallIds : ReturnGiveCopy(c)
  \/ \E c \in CallIds : ReturnSaveBook(c)

\* The ledger: Books created, soft-deleted, rented and returned, with no
\* direct edit of a copy count.  No time passes.
Next ==
  \/ \E c \in CallIds, data \in CreateData : CreateArrive(c, data, MaxBooks)
  \/ \E c \in CallIds : CreateSaveBook(c)
  \/ \E id \in BookIds : DeleteBook(id)
  \/ \E c \in CallIds, bookId \in BookIds, renterEmail \in RenterEmails,
        dueDate \in SentDueDates(now) :
       RentFindBook(c, bookId, renterEmail, dueDate)
  \/ \E c \in CallIds, rentalId \in RentalIds : ReturnFindRental(c, rentalId)
  \/ RentAwaits
  \/ ReturnAwaits

Spec == Init /\ [][Next]_vars

\* Rent requests racing for the copies of the Books, nothing given back.
NextRace ==
  \/ \E c \in CallIds, data \in CreateData : CreateArrive(c, data, MaxBooks)
  \/ \E c \in CallIds : CreateSaveBook(c)
  \/ \E c \in CallIds, bookId \in BookIds, renterEmail \in RenterEmails,
        dueDate \in SentDueDates(now) :
       RentFindBook(c, bookId, renterEmail, dueDate)
  \/ RentAwaits

SpecRace == Init /\ [][NextRace]_vars

\* The ledger with its requests served one at a time: a request enters
\* when none is being served.
NextSerial ==
  \/ Tick
  \/ \E c \in CallIds, data \in CreateData :
       Quiet /\ CreateArrive(c, data, MaxBooks)
  \/ \E c \in CallIds : CreateSaveBook(c)
  \/ \E id \in BookIds : Quiet /\ DeleteBook(id)
  \/ \E c \in CallIds, bookId \in BookIds, renterEmail \in RenterEmails,
        dueDate \in SentDueDates(now) :
       Quiet /\ RentFindBook(c, bookId, renterEmail, dueDate)
  \/ \E c \in CallIds, rentalId \in RentalIds :
       Quiet /\ ReturnFindRental(c, rentalId)
  \/ RentAwaits
  \/ ReturnAwaits

SpecSerial == Init /\ [][NextSerial]_vars

\* Rent, return and status update served one at a time, over Books created
\* with all their copies available and never edited.
NextConserve ==
  \/ Tick
  \/ \E c \in CallIds, data \in FullCreateData :
       Quiet /\ CreateArrive(c, data, MaxBooks)
  \/ \E c \in CallIds : CreateSaveBook(c)
  \/ \E c \in CallIds, bookId \in BookIds, renterEmail \in RenterEmails,
        dueDate \in SentDueDates(now) :
       Quiet /\ RentFindBook(c, bookId, renterEmail, dueDate)
  \/ \E c \in CallIds, rentalId \in RentalIds :
       Quiet /\ ReturnFindRental(c, rentalId)
  \/ \E c \in CallIds, id \in RentalIds, body \in StatusBodies :
       Quiet /\ StatusFindRental(c, id, body.status, body.notes)
  \/ \E c \in CallIds : StatusSave(c)
  \/ RentAwaits
  \/ ReturnAwaits

SpecConserve == Init /\ [][NextConserve]_vars

\* Rent and status update by one renter.  No time passes.
NextStatus ==
  \/ \E c \in CallIds, data \in FullCreateData : CreateArrive(c, data, MaxBooks)
  \/ \E c \in CallIds : CreateSaveBook(c)
  \/ \E c \in CallIds, bookId \in BookIds, renterEmail \in OneEmail,
        dueDate \in SentDueDates(now) :
       RentFindBook(c, bookId, renterEmail, dueDate)
  \/ \E c \in CallIds, id \in RentalIds, body \in StatusBodies :
       StatusFindRental(c, id, body.status, body.notes)
  \/ \E c \in CallIds : StatusSave(c)
  \/ RentAwaits

SpecStatus == Init /\ [][NextStatus]_vars

\* Rent, return and status update (to a status of the enum) by one renter.
\* No time passes.
NextTerminal ==
  \/ \E c \in CallIds, data \in ShelfData : CreateArrive(c, data, MaxBooks)
  \/ \E c \in CallIds : CreateSaveBook(c)
  \/ \E c \in CallIds, bookId \in BookIds, renterEmail \in OneEmail,
        dueDate \in SentDueDates(now) :
       RentFindBook(c, bookId, renterEmail, dueDate)
  \/ \E c \in CallIds, rentalId \in RentalIds : ReturnFindRental(c, rentalId)
  \/ \E c \in CallIds, id \in RentalIds, body \in [status : RentalStatuses, notes : SentNotes] :
       StatusFindRental(c, id, body.status, body.notes)
  \/ \E c \in CallIds : StatusSave(c)
  \/ RentAwaits
  \/ ReturnAwaits

SpecTerminal == Init /\ [][NextTerminal]_vars

\* Rent and return by one renter while time passes, the Books being created
\* at the start.
NextClock ==
  \/ Tick
  \/ \E c \in CallIds, data \in FullCreateData :
       now = 0 /\ CreateArrive(c, data, MaxBooks)
  \/ \E c \in CallIds : CreateSaveBook(c)
  \/ \E c \in CallIds, bookId \in BookIds, renterEmail \in OneEmail,
        dueDate \in SentDueDates(now) :
       RentFindBook(c, bookId, renterEmail, dueDate)
  \/ \E c \in CallIds, rentalId \in RentalIds : ReturnFindRental(c, rentalId)
  \/ RentAwaits
  \/ ReturnAwaits

SpecClock == Init /\ [][NextClock]_vars

\* Rent and status update by one renter while time passes, the Books being
\* created at the start.
NextOverdue ==
  \/ Tick
  \/ \E c \in CallIds, data \in ShelfData :
       now = 0 /\ CreateArrive(c, data, MaxBooks)
  \/ \E c \in CallIds : CreateSaveBook(c)
  \/ \E c \in CallIds, bookId \in BookIds, renterEmail \in OneEmail,
        dueDate \in SentDueDates(now) :
       RentFindBook(c, bookId, renterEmail, dueDate)
  \/ \E c \in CallIds, id \in RentalIds, body \in StatusBodies :
       StatusFindRental(c, id, body.status, body.notes)
  \/ \E c \in CallIds : StatusSave(c)
  \/ RentAwaits

SpecOverdue == Init /\ [][NextOverdue]_vars

\* The reads of Rentals beside rent and return while time passes: one read
\* and one other request at a time, the listings asked by pages of one.
NextReads ==
  \/ Tick
  \/ \E c \in CallIds, data \in ShelfData :
       now = 0 /\ ~Writing /\ CreateArrive(c, data, MaxBooks)
  \/ \E c \in CallIds : CreateSaveBook(c)
  \/ \E c \in CallIds, bookId \in BookIds, renterEmail \in OneEmail,
        dueDate \in SentDueDates(now) :
       ~Writing /\ RentFindBook(c, bookId, renterEmail, dueDate)
  \/ \E c \in CallIds, rentalId \in RentalIds :
       ~Writing /\ ReturnFindRental(c, rentalId)
  \/ RentAwaits
  \/ ReturnAwaits
  \/ \E c \in CallIds, id \in RentalIds : ~Reading /\ GetRentalFind(c, id)
  \/ \E c \in CallIds, page \in Pages :
       ~Reading /\ GetAllRentalsArrive(c, page, 1, "")
  \/ \E c \in CallIds, page \in Pages :
       ~Reading /\ GetOverdueRentalsArrive(c, page, 1)
  \/ \E c \in CallIds, at \in 0..now : ~Reading /\ GetRentalStatsOverall(c, at)
  \/ \E c \in CallIds : GetRentalPopulate(c)
  \/ \E c \in CallIds, tie \in Ties(Len(rentals)) : GetAllRentalsFind(c, tie)
  \/ \E c \in CallIds : GetAllRentalsPopulate(c)
  \/ \E c \in CallIds : GetAllRentalsCount(c)
  \/ \E c \in CallIds, tie \in Ties(Len(rentals)) : GetOverdueRentalsFind(c, tie)
  \/ \E c \in CallIds : GetOverdueRentalsPopulate(c)
  \/ \E c \in CallIds : GetOverdueRentalsCount(c)
  \/ \E c \in CallIds : GetRentalStatsMonthly(c)

SpecReads == Init /\ [][NextReads]_vars

\* The catalogue of MaxCatalog Books: create, update of the isbn and soft
\* delete.
NextCatalog ==
  \/ \E c \in CallIds, data \in CatalogCreateData :
       /\ data.totalCopies = 1 /\ data.availableCopies = 1
       /\ CreateArrive(c, data, MaxCatalog)
  \/ \E c \in CallIds : CreateFindIsbn(c)
  \/ \E c \in CallIds : CreateSaveBook(c)
  \/ \E c \in CallIds, id \in CatalogIds, isbn \in Isbns \cup {""} :
       UpdateBook(c, id, [NoUpdate EXCEPT !.fields = {"isbn"}, !.isbn = isbn])
  \/ \E c \in CallIds : UpdateFindCurrent(c)
  \/ \E c \in CallIds : UpdateWriteBook(c)
  \/ \E id \in CatalogIds : DeleteBook(id)

SpecCatalog == Init /\ [][NextCatalog]_vars

\* The listings of the catalogue beside create, change of title and soft
\* delete.  A create or a change of title enters when no request is being
\* served, and a listing when no other listing is: the listing interleaves
\* with the awaits of the write that entered before it.  The default
\* listing is asked page by page with one Book a page; the available
\* listing, whose route validates nothing, with every page from 0 and every
\* limit from -MaxLimit.
NextListings ==
  \/ \E c \in CallIds, data \in CreateDataWith({NoIsbn}, {"Aa", "Bb"}) :
       /\ data.totalCopies = 1
       /\ Quiet
       /\ CreateArrive(c, data, MaxCatalog)
  \/ \E c \in CallIds : CreateSaveBook(c)
  \/ \E id \in CatalogIds : DeleteBook(id)
  \/ \E c \in CallIds, page \in Pages :
       ~Reading /\ GetAllBooksArrive(c, page, 1)
  \/ \E c \in CallIds, id \in CatalogIds, title \in {"Aa", "Bb"} :
       /\ Quiet
       /\ UpdateBook(c, id, [NoUpdate EXCEPT !.fields = {"title"},
                                             !.title = title])
  \/ \E c \in CallIds : UpdateWriteBook(c)
  \/ \E c \in CallIds, page \in 0..MaxPage, limit \in (-MaxLimit)..MaxLimit :
       ~Reading /\ GetAvailableBooksArrive(c, page, limit)
  \/ \E id \in CatalogIds : GetBookById(id)
  \/ \E c \in CallIds, tie \in Ties(Len(books)) : GetAllBooksFind(c, tie)
  \/ \E c \in CallIds : GetAllBooksCount(c)
  \/ \E c \in CallIds, tie \in Ties(Len(books)) : GetAvailableBooksFind(c, tie)
  \/ \E c \in CallIds : GetAvailableBooksCount(c)

SpecListings == Init /\ [][NextListings]_vars

\* Direct edits of the copy counts beside rent and return by one renter.
\* No time passes.
NextEdits ==
  \/ \E c \in CallIds, data \in FullCreateData : CreateArrive(c, data, MaxBooks)
  \/ \E c \in CallIds : CreateSaveBook(c)
  \/ \E c \in CallIds, id \in BookIds, data \in UpdateData :
       "isActive" \notin data.fields /\ UpdateBook(c, id, data)
  \/ \E c \in CallIds : UpdateWriteBook(c)
  \/ \E c \in CallIds, bookId \in BookIds, renterEmail \in OneEmail,
        dueDate \in SentDueDates(now) :
       RentFindBook(c, bookId, renterEmail, dueDate)
  \/ \E c \in CallIds, rentalId \in RentalIds : ReturnFindRental(c, rentalId)
  \/ RentAwaits
  \/ ReturnAwaits

SpecEdits == Init /\ [][NextEdits]_vars

\* Rent and return over a store that may reject a write.  No time passes.
NextFaults ==
  \/ \E c \in CallIds, data \in FullCreateData : CreateArrive(c, data, MaxBooks)
  \/ \E c \in CallIds : CreateSaveBook(c)
  \/ \E c \in CallIds, bookId \in BookIds, renterEmail \in {"a@x.io", "b@x.io"},
        dueDate \in SentDueDates(now) :
       RentFindBook(c, bookId, renterEmail, dueDate)
  \/ \E c \in CallIds, rentalId \in RentalIds : ReturnFindRental(c, rentalId)
  \/ RentAwaits
  \/ ReturnAwaits
  \/ \E c \in CallIds : RentSaveRentalFails(c)
  \/ \E c \in CallIds : RentTakeCopyFails(c)
  \/ \E c \in CallIds : ReturnCloseRentalFails(c)
  \/ \E c \in CallIds : ReturnGiveCopyFails(c)

SpecFaults == Init /\ [][NextFaults]_vars

\* ================================================================== claims
CopiesInRange(b) ==
  0 <= b.availableCopies /\ b.availableCopies <= b.totalCopies

\* C1: with rent and returnBook served one request at a time (and no direct
\* edit of the copy counts), every Book has 0 <= availableCopies <= totalCopies
\* in every reachable state, between the awaits of a request as well.
C1_CopiesInRange ==
  \A b \in DOMAIN books : CopiesInRange(books[b])

\* a return has just given back the last outstanding copy
C1_Witness ==
  /\ last = Served("returnBook", 200)
  /\ \E i \in DOMAIN rentals :
       /\ rentals[i].status = "returned"
       /\ books[rentals[i].book].availableCopies = books[rentals[i].book].totalCopies

\* C2: also with create and update of the copy counts mixed in, every stored
\* Book has 0 <= availableCopies <= totalCopies.
C2_CopiesInRangeWithEdits ==
  \A b \in DOMAIN books :
    books[b].availableCopies \in 0..books[b].totalCopies

\* C3: a successful rent followed by a successful returnBook of the Rental it
\* created, at the same or a later instant and with nothing in between, takes
\* exactly one copy, gives exactly one back and so restores availableCopies.
C3_RoundTrip ==
  \A b \in DOMAIN books, e \in RenterEmails, d \in DueDates(now),
     t1 \in now..MaxTime, t2 \in now..MaxTime :
    LET o1 == rentBook(books, rentals, now, t1, b, e, d, "")
        o2 == returnBook(o1.books, o1.rentals, t2, Len(o1.rentals))
    IN  (t1 <= t2 /\ o1.code = 201 /\ o2.code = 200) =>
          /\ o1.books[b].availableCopies = books[b].availableCopies - 1
          /\ o2.books[b].availableCopies = o1.books[b].availableCopies + 1
          /\ o2.books[b].availableCopies = books[b].availableCopies

\* a round trip succeeds on a Book that already has a copy out
C3_Witness ==
  \E b \in DOMAIN books, e \in RenterEmails, d \in DueDates(now), t2 \in now..MaxTime :
    LET o1 == rentBook(books, rentals, now, now, b, e, d, "")
        o2 == returnBook(o1.books, o1.rentals, t2, Len(o1.rentals))
    IN  /\ o1.code = 201
        /\ o2.code = 200
        /\ t2 > d
        /\ books[b].availableCopies < books[b].totalCopies
        /\ \E i \in DOMAIN rentals : rentals[i].book = b /\ rentals[i].status = "active"

\* C4: returnBook on a Rental that is already returned answers 400 and
\* leaves every Rental and every Book as it was.
C4_SecondReturnRejected ==
  \A id \in DOMAIN rentals :
    rentals[id].status = "returned" =>
      LET o == returnBook(books, rentals, now, id)
      IN  o.code = 400 /\ o.rentals = rentals /\ o.books = books

\* a return was just refused, the Rental having been returned by returnBook
C4_Witness ==
  /\ last = Served("returnBook", 400)
  /\ \E id \in DOMAIN rentals :
       rentals[id].status = "returned" /\ rentals[id].returnDate # NoDate

\* C5: rent on an existing Book with availableCopies = 0 answers 400, active
\* or not, stores no Rental and leaves the Book as it was.
C5_RentWithoutCopies ==
  \A b \in DOMAIN books :
    books[b].availableCopies = 0 =>
      \A e \in RenterEmails, d \in DueDates(now), n \in NotesInputs :
        LET o == rentBook(books, rentals, now, now, b, e, d, n)
        IN  o.code = 400 /\ o.rentals = rentals /\ o.books = books

\* a rent was just refused on an active Book all of whose copies are out
C5_Witness ==
  /\ last = Served("rentBook", 400)
  /\ \A b \in DOMAIN books : books[b].availableCopies = 0 /\ books[b].isActive
  /\ books # <<>>
\* C6: a successful returnBook leaves the Rental returned with
\* lateFee = ceil((now - dueDate) / 1 day) * 1 when now > dueDate, and with
\* its lateFee untouched when returned on or before dueDate.
C6_LateFeeOnReturn ==
  \A id \in DOMAIN rentals :
    LET o == returnBook(books, rentals, now, id)
        r == rentals[id]
    IN  o.code = 200 =>
          /\ o.rentals[id].status = "returned"
          /\ o.rentals[id].lateFee =
               IF now > r.dueDate
                 THEN Ceil(now - r.dueDate, DayTicks) * LateFeeRate
                 ELSE r.lateFee

HasActiveRental(b, e) ==
  \E i \in DOMAIN rentals : /\ rentals[i].book = b
                            /\ rentals[i].renterEmail = Lower(e)
                            /\ rentals[i].status = "active"

\* C7 as stated: rent for a (book, renterEmail) pair that has an active
\* Rental answers 409, stores no Rental and leaves the Book as it was.
C7_DuplicateRentConflict ==
  \A b \in DOMAIN books, e \in RenterEmails :
    HasActiveRental(b, e) =>
      \A d \in DueDates(now), n \in NotesInputs :
        LET o == rentBook(books, rentals, now, now, b, e, d, n)
        IN  o.code = 409 /\ o.rentals = rentals /\ o.books = books

\* C7 amended: such a rent stores no Rental and leaves the Book as it was; it
\* answers 409 when the Book can be rented and 400 when it cannot, the
\* availability check coming first.
C7_DuplicateRentRefused ==
  \A b \in DOMAIN books, e \in RenterEmails :
    HasActiveRental(b, e) =>
      \A d \in DueDates(now), n \in NotesInputs :
        LET o == rentBook(books, rentals, now, now, b, e, d, n)
        IN  /\ o.code = IF canBeRented(books[b]) THEN 409 ELSE 400
            /\ o.rentals = rentals
            /\ o.books = books

\* a rent was just refused as a duplicate, the Book still having a copy
C7_Witness ==
  /\ last = Served("rentBook", 409)
  /\ \E i \in DOMAIN rentals :
       rentals[i].status = "active" /\ canBeRented(books[rentals[i].book])

\* C8: updateRentalStatus of a returned Rental to any other status answers
\* 400 and leaves the Rental (status, returnDate, notes) as it was.
C8_ReturnedNotReopened ==
  \A id \in DOMAIN rentals :
    rentals[id].status = "returned" =>
      \A st \in RequestStatuses \ {"returned"}, n \in NotesInputs :
        LET o == updateRentalStatus(books, rentals, now, id, st, n)
        IN  o.code = 400 /\ o.rentals = rentals /\ o.books = books

\* a status update was just refused and every Rental there is is returned
C8_Witness ==
  /\ last = Served("updateRentalStatus", 400)
  /\ rentals # <<>>
  /\ \A i \in DOMAIN rentals : rentals[i].status = "returned"

\* C9: a step of a successful soft delete (it answers at its one await, so
\* no call moves) changes isActive of one Book to false and nothing else: no
\* copy count and no Rental.
C9_SoftDeleteFrame ==
  [][(/\ calls' = calls
      /\ now' = now
      /\ last'.op = "deleteBook"
      /\ last'.code = 200) =>
       /\ rentals' = rentals
       /\ \E id \in DOMAIN books : books' = [books EXCEPT ![id].isActive = FALSE]]_vars

\* a Book was just soft-deleted while a Rental of it is active
C9_Witness ==
  /\ last = Served("deleteBook", 200)
  /\ \E i \in DOMAIN rentals :
       /\ rentals[i].status = "active"
       /\ ~books[rentals[i].book].isActive
       /\ books[rentals[i].book].availableCopies > 0

\* C10: every Rental stored as returned has its returnDate set.
C10_ReturnedHasReturnDate ==
  \A i \in DOMAIN rentals :
    rentals[i].status = "returned" => rentals[i].returnDate # NoDate

\* C11: with the requests served one at a time, a Rental stored as returned
\* is after every step still stored as returned, with the returnDate it had.
C11_ReturnedIsTerminal ==
  [][\A i \in DOMAIN rentals :
       rentals[i].status = "returned" =>
         /\ i \in DOMAIN rentals'
         /\ rentals'[i].status = "returned"
         /\ rentals'[i].returnDate = rentals[i].returnDate]_vars

\* a status update was just accepted at an instant after the return of every
\* Rental there is, each of them returned by returnBook
C11_Witness ==
  /\ last = Served("updateRentalStatus", 200)
  /\ rentals # <<>>
  /\ \A i \in DOMAIN rentals :
       /\ rentals[i].status = "returned"
       /\ rentals[i].returnDate # NoDate
       /\ rentals[i].returnDate < now

\* a step of a handler that only reads: a call of such a handler moves, or
\* such a handler answers at its first await
ReadStep ==
  \/ \E c \in CallIds :
       /\ calls'[c] # calls[c]
       /\ calls[c].op \in ReadOps \/ calls'[c].op \in ReadOps
  \/ calls' = calls /\ last' # last /\ last'.op \in ReadOps

\* C12: an active Rental read by id after its dueDate reports daysOverdue > 0
\* and isOverdue = true with its status still active, the read storing
\* nothing; and no step of a read (by id, listing, overdue listing,
\* statistics) changes a stored Rental or Book.
C12_OverdueDerivedOnRead ==
  /\ [](\A id \in RentalIds :
          LET o == getRentalById(books, rentals, now, id)
          IN  /\ o.rentals = rentals /\ o.books = books
              /\ (/\ id \in DOMAIN rentals
                  /\ rentals[id].status = "active"
                  /\ now > rentals[id].dueDate) =>
                   /\ o.code = 200
                   /\ o.data.daysOverdue > 0
                   /\ o.data.isOverdue
                   /\ o.data.status = "active")
  /\ [][ReadStep => (rentals' = rentals /\ books' = books)]_vars

\* a read by id has just answered a Rental as overdue, and every Rental
\* there is is stored as active with its dueDate passed
C12_Witness ==
  /\ last.op = "getRentalById"
  /\ last.code = 200
  /\ last.data.isOverdue
  /\ last.data.daysOverdue > 0
  /\ rentals # <<>>
  /\ \A i \in DOMAIN rentals :
       rentals[i].status = "active" /\ now > rentals[i].dueDate

\* C13: a rent that passes the availability and duplicate checks with a
\* dueDate not after the rentalDate (the instant the Rental is built) fails
\* validation: it answers 400, stores no Rental and takes no copy.
C13_InvalidRentalTakesNoCopy ==
  \A b \in DOMAIN books, e \in RenterEmails, d \in DueDates(now), n \in NotesInputs,
     t1 \in now..MaxTime :
    (canBeRented(books[b]) /\ findActiveRental(rentals, b, e) = {} /\ d <= now) =>
      LET o == rentBook(books, rentals, now, t1, b, e, d, n)
      IN  o.code = 400 /\ o.rentals = rentals /\ o.books = books

\* a rent was just refused although every Book there is can be rented and
\* no Rental is stored
C13_Witness ==
  /\ last = Served("rentBook", 400)
  /\ books # <<>>
  /\ rentals = <<>>
  /\ \A b \in DOMAIN books : canBeRented(books[b])

\* C14: returnBook of a Rental not yet returned whose Book has
\* availableCopies >= totalCopies answers 500 (not 400, 404 or 409), leaves
\* the Rental stored as returned and leaves the Book as it was.
C14_ReturnOnFullLedger ==
  \A id \in DOMAIN rentals :
    LET b == rentals[id].book
    IN  (rentals[id].status # "returned" /\
         books[b].availableCopies >= books[b].totalCopies) =>
          LET o == returnBook(books, rentals, now, id)
          IN  /\ o.code = 500
              /\ o.code \notin {400, 404, 409}
              /\ o.rentals[id].status = "returned"
              /\ o.rentals[id].returnDate = now
              /\ o.books = books

\* a return just ended in a server error, leaving a Rental returned by it
\* beside a Book all of whose copies are in
C14_Witness ==
  /\ last = Served("returnBook", 500)
  /\ \E i \in DOMAIN rentals :
       /\ rentals[i].status = "returned"
       /\ rentals[i].returnDate = now
       /\ books[rentals[i].book].availableCopies >= books[rentals[i].book].totalCopies

\* call c is a rent that has stored its Rental / taken its copy
RentStored(c) ==
  calls[c].op = "rentBook" /\ calls[c].pc \in {"rentBook", "saveBook", "populate"}

RentTaken(c) ==
  calls[c].op = "rentBook" /\ calls[c].pc \in {"saveBook", "populate"}

\* call c is a return that has closed its Rental / given its copy back
ReturnClosed(c) ==
  calls[c].op = "returnBook" /\ calls[c].pc \in {"saveRental", "giveCopy", "saveBook"}

ReturnGiven(c) ==
  calls[c].op = "returnBook" /\ calls[c].pc = "saveBook"

\* C15: a rent request that answers has stored its Rental exactly when it
\* has taken its copy of the Book, and a returnBook request that answers has
\* closed its Rental exactly when it has given its copy back, also when a
\* write is rejected on the way.
C15_TransactionSafe ==
  [][\A c \in CallIds :
       /\ (calls[c].op = "rentBook" /\ calls'[c].pc = "idle") =>
            ((RentStored(c) \/ rentals' # rentals) <=>
             (RentTaken(c) \/ books' # books))
       /\ (calls[c].op = "returnBook" /\ calls'[c].pc = "idle") =>
            ((ReturnClosed(c) \/ rentals' # rentals) <=>
             (ReturnGiven(c) \/ books' # books))]_vars

\* C16: with rent requests only, when two rent calls for the same Book by
\* different renters have both loaded the Book with availableCopies = 1 (so
\* both passed canBeRented before either took the copy) and both have taken
\* their copy, nothing being left to either but to answer 201, and theirs
\* are the only Rentals of the Book, then two Rentals not returned stand
\* against the one copy taken.
C16_BothRentersGetLastCopy ==
  \A c1, c2 \in CallIds :
    (/\ c1 # c2
     /\ RentTaken(c1) /\ RentTaken(c2)
     /\ calls[c1].bookId = calls[c2].bookId
     /\ Lower(calls[c1].renterEmail) # Lower(calls[c2].renterEmail)
     /\ calls[c1].seen.availableCopies = 1
     /\ calls[c2].seen.availableCopies = 1
     /\ Cardinality({i \in DOMAIN rentals :
                       rentals[i].book = calls[c1].bookId}) <= 2) =>
      /\ \A c \in {c1, c2} :
           \E i \in DOMAIN rentals :
             /\ rentals[i].book = calls[c].bookId
             /\ rentals[i].renterEmail = Lower(calls[c].renterEmail)
             /\ rentals[i].status # "returned"
      /\ Cardinality({i \in DOMAIN rentals :
                        /\ rentals[i].book = calls[c1].bookId
                        /\ rentals[i].status # "returned"}) = 2
      /\ books[calls[c1].bookId].availableCopies = 0

\* both calls are about to answer 201 for a Book that had one copy to lend
C16_Witness ==
  /\ \A c \in CallIds :
       /\ At(c, "rentBook", "populate")
       /\ calls[c].seen.availableCopies = 1
       /\ calls[c].bookId = 1
  /\ Len(rentals) = MaxCalls
  /\ \A i \in DOMAIN rentals : rentals[i].status = "active"
  /\ books[1].availableCopies = 0

\* C17: no two Books, active or not, hold the same isbn; a valid create and
\* a valid update carrying an ISBN held by another Book answer 409 and change
\* nothing; an update to the empty isbn held by another Book changes nothing.
C17_IsbnUnique ==
  /\ \A i, j \in DOMAIN books :
       (i # j /\ books[i].isbn # NoIsbn) => books[i].isbn # books[j].isbn
  /\ \A data \in CatalogCreateData :
       (/\ createBookValid(data)
        /\ data.isbn # NoIsbn
        /\ \E j \in DOMAIN books : books[j].isbn = data.isbn) =>
         LET o == postBook(books, rentals, now, data)
         IN  o.code = 409 /\ o.books = books /\ o.rentals = rentals
  /\ \A id \in CatalogIds, data \in UpdateData \cup
                                {[d EXCEPT !.fields = @ \cup {"isbn"}, !.isbn = i] :
                                   d \in UpdateData, i \in Isbns \cup {""}} :
       (/\ updateBookValid(data)
        /\ "isbn" \in data.fields
        /\ \E j \in DOMAIN books : j # id /\ books[j].isbn = data.isbn) =>
         LET o == putBook(books, rentals, id, data)
         IN  /\ o.books = books /\ o.rentals = rentals
             /\ o.code \in {400, 404, 409}
             /\ data.isbn # "" => o.code = 409

\* a create was just refused for an ISBN whose only holder is soft-deleted
C17_Witness ==
  /\ last = Served("createBook", 409)
  /\ \E b \in DOMAIN books : books[b].isbn \in Isbns
  /\ \A b \in DOMAIN books : books[b].isbn \in Isbns => ~books[b].isActive

Range(f) == {f[i] : i \in DOMAIN f}

\* C18: served from one state of the store, the default listing, over its
\* pages, holds exactly the Books with isActive = true, a soft-deleted Book
\* is still answered by id, and the available listing, over its pages,
\* holds exactly the Books that can be rented, in whichever order the store
\* hands out Books of equal sort key.  The available listing takes page and
\* limit unvalidated: a request whose skip is negative is answered 500 with
\* no listing, every other one is answered 200 with Books that can be
\* rented only and their right count; with a limit of 0 one page holds
\* them all, and with any other limit a page holds at most as many as the
\* absolute value of the limit.
C18_ListingsReflectLedger ==
  /\ \A limit \in Limits, tie \in Ties(Len(books)) :
       LET first == getAllBooks(books, rentals, 1, limit, tie).data
           all   == UNION {Range(getAllBooks(books, rentals, p, limit, tie).data.items) :
                             p \in 1..first.totalPages}
       IN  /\ all = {i \in DOMAIN books : books[i].isActive}
           /\ first.totalItems = Cardinality(all)
  /\ \A limit \in Limits, tie \in Ties(Len(books)) :
       LET first == getAvailableBooks(books, rentals, 1, limit, tie).data
           all   == UNION {Range(getAvailableBooks(books, rentals, p, limit, tie).data.items) :
                             p \in 1..first.totalPages}
       IN  /\ all = {i \in DOMAIN books : canBeRented(books[i])}
           /\ first.totalItems = Cardinality(all)
  /\ \A page \in 0..MaxPage, limit \in (-MaxLimit)..MaxLimit,
        tie \in Ties(Len(books)) :
       LET o   == getAvailableBooks(books, rentals, page, limit, tie)
           can == {i \in DOMAIN books : canBeRented(books[i])}
       IN  IF (page - 1) * limit < 0
             THEN o.code = 500 /\ o.data = NoData
             ELSE /\ o.code = 200
                  /\ Range(o.data.items) \subseteq can
                  /\ o.data.totalItems = Cardinality(can)
                  /\ limit = 0 => Range(o.data.items) = can
                  /\ limit > 0 => Len(o.data.items) <= limit
                  /\ limit < 0 => Len(o.data.items) <= -limit
  /\ \A id \in DOMAIN books :
       LET o == getBookById(books, rentals, id)
       IN  o.code = 200 /\ o.data = books[id]

\* the available listing was just read with a soft-deleted Book that has
\* copies and an active Book that has none
C18_Witness ==
  /\ last.op = "getAvailableBooks"
  /\ last.code = 200
  /\ \E i, j \in DOMAIN books :
       /\ ~books[i].isActive /\ books[i].availableCopies > 0
       /\ books[j].isActive /\ books[j].availableCopies = 0

\* C19: no two Rentals stored as active have the same Book and renterEmail.
C19_OneActivePerPair ==
  \A i, j \in DOMAIN rentals :
    (/\ i # j
     /\ rentals[i].status = "active" /\ rentals[j].status = "active"
     /\ rentals[i].book = rentals[j].book) =>
      rentals[i].renterEmail # rentals[j].renterEmail

\* C20: a rent (with a dueDate in the future, on a Book that can be rented)
\* by a renterEmail that holds a Rental of the Book not yet returned, stored
\* as active or as overdue, answers 409.
C20_UnreturnedRentalConflicts ==
  \A b \in DOMAIN books, e \in RenterEmails :
    (/\ canBeRented(books[b])
     /\ \E i \in DOMAIN rentals : /\ rentals[i].book = b
                                   /\ rentals[i].renterEmail = Lower(e)
                                   /\ rentals[i].status \in {"active", "overdue"}) =>
      \A d \in DueDates(now) :
        d > now => rentBook(books, rentals, now, now, b, e, d, "").code = 409

\* C21: a successful return stores returnDate = the returnDate of the request
\* when it has one (not before the rentalDate) and the current time otherwise,
\* and the lateFee counted against that instant.
C21_ReturnAsOfSuppliedDate ==
  \A id \in DOMAIN rentals, rd \in {NoDate} \cup (0..now) :
    LET o       == postReturn(books, rentals, now, id, rd)
        instant == IF rd # NoDate THEN rd ELSE now
        due     == rentals[id].dueDate
    IN  (o.code = 200 /\ instant >= rentals[id].rentalDate) =>
          /\ o.rentals[id].returnDate = instant
          /\ o.rentals[id].lateFee =
               IF instant > due THEN Ceil(instant - due, DayTicks) * LateFeeRate
                                ELSE rentals[id].lateFee

\* C22: a Rental saved by updateRentalStatus or by returnBook is not stored
\* as active while now > dueDate: past its dueDate it is stored as overdue or
\* returned, and a Rental saved by returnBook is stored as returned.
C22_SavedStatusAgrees ==
  \A id \in DOMAIN rentals :
    /\ \A st \in RequestStatuses, n \in NotesInputs :
         LET o == updateRentalStatus(books, rentals, now, id, st, n)
         IN  (o.code = 200 /\ now > o.rentals[id].dueDate) =>
               o.rentals[id].status \in {"overdue", "returned"}
    /\ LET o == returnBook(books, rentals, now, id)
       IN  o.rentals[id] # rentals[id] => o.rentals[id].status = "returned"

\* C23 as stated: a successful updateRentalStatus of a Rental that is not
\* returned stores exactly the status of the request.
C23_StatusSetAsGiven ==
  \A id \in DOMAIN rentals, st \in RentalStatuses, n \in NotesInputs :
    rentals[id].status # "returned" =>
      LET o == updateRentalStatus(books, rentals, now, id, st, n)
      IN  o.code = 200 => o.rentals[id].status = st

\* C23 amended: such an update succeeds and stores the status of the
\* request, except that active is stored as overdue when now > dueDate.
C23_StatusSetOrDerived ==
  \A id \in DOMAIN rentals, st \in RentalStatuses, n \in NotesInputs :
    rentals[id].status # "returned" =>
      LET o == updateRentalStatus(books, rentals, now, id, st, n)
      IN  /\ o.code = 200
          /\ o.rentals[id].status =
               IF st = "active" /\ now > rentals[id].dueDate THEN "overdue" ELSE st

\* a status update was just accepted and a Rental is stored as overdue
\* before its dueDate, as only a request can have set it
C23_Witness ==
  /\ last = Served("updateRentalStatus", 200)
  /\ \E i \in DOMAIN rentals :
       rentals[i].status = "overdue" /\ now <= rentals[i].dueDate

\* C24: an update whose body would leave a Book with
\* availableCopies > totalCopies is accepted and stores the Book with
\* availableCopies = totalCopies.
C24_WritesClamp ==
  \A id \in DOMAIN books, data \in UpdateData :
    LET b1 == findByIdAndUpdate(books[id], data)
        o  == putBook(books, rentals, id, data)
    IN  (updateBookValid(data) /\ b1.availableCopies > b1.totalCopies) =>
          /\ o.code = 200
          /\ o.books[id].availableCopies = o.books[id].totalCopies

\* C25: for every Book, totalCopies - availableCopies is the number of its
\* Rentals whose status is not returned.
C25_CopiesConserved ==
  \A b \in DOMAIN books :
    books[b].totalCopies - books[b].availableCopies =
      Cardinality({i \in DOMAIN rentals :
                     rentals[i].book = b /\ rentals[i].status # "returned"})

\* C26: returnBook of a Rental not yet returned whose Book is soft-deleted
\* (and has a copy out) answers 200, stores the Rental as returned and raises the Book's
\* availableCopies by 1, the Book staying inactive; every rent on that Book
\* answers 400 and changes nothing.
C26_ReturnToDeletedBook ==
  \A id \in DOMAIN rentals :
    LET b == rentals[id].book
    IN  (/\ rentals[id].status # "returned"
         /\ ~books[b].isActive
         /\ books[b].availableCopies < books[b].totalCopies) =>
          /\ LET o == returnBook(books, rentals, now, id)
             IN  /\ o.code = 200
                 /\ o.rentals[id].status = "returned"
                 /\ o.books[b].availableCopies = books[b].availableCopies + 1
                 /\ ~o.books[b].isActive
          /\ \A e \in RenterEmails, d \in DueDates(now), n \in NotesInputs :
               LET o == rentBook(books, rentals, now, now, b, e, d, n)
               IN  o.code = 400 /\ o.rentals = rentals /\ o.books = books

\* a return was just accepted for a Rental of a soft-deleted Book
C26_Witness ==
  /\ last = Served("returnBook", 200)
  /\ \E i \in DOMAIN rentals :
       /\ rentals[i].status = "returned"
       /\ rentals[i].returnDate = now
       /\ ~books[rentals[i].book].isActive
       /\ books[rentals[i].book].availableCopies > 0

\* the Rentals of the overdue listing, over all its pages
OverdueListed(rts, t, limit, tie) ==
  UNION {Range(getOverdueRentals(books, rts, t, p, limit, tie).data.items) :
           p \in 1..getOverdueRentals(books, rts, t, 1, limit, tie).data.totalPages}

\* C27: served from one state of the store, the overdue listing holds
\* exactly the Rentals stored as active with dueDate < now or stored as
\* overdue, in whichever order the store hands out Rentals of equal dueDate;
\* no returned Rental is in it, and a Rental in it is out of it once a
\* returnBook (or a status update to returned) has stored it as returned.
C27_OverdueListing ==
  \A limit \in Limits, tie \in Ties(Len(rentals)) :
    /\ OverdueListed(rentals, now, limit, tie) =
         {i \in DOMAIN rentals :
            \/ rentals[i].status = "active" /\ rentals[i].dueDate < now
            \/ rentals[i].status = "overdue"}
    /\ getOverdueRentals(books, rentals, now, 1, limit, tie).data.totalItems =
         Cardinality(OverdueListed(rentals, now, limit, tie))
    /\ \A i \in DOMAIN rentals :
         rentals[i].status = "returned" =>
           i \notin OverdueListed(rentals, now, limit, tie)
    /\ \A i \in OverdueListed(rentals, now, limit, tie) :
         /\ LET o == returnBook(books, rentals, now, i)
            IN  /\ o.rentals[i].status = "returned"
                /\ i \notin OverdueListed(o.rentals, now, limit, tie)
         /\ LET o == updateRentalStatus(books, rentals, now, i, "returned", "")
            IN  /\ o.rentals[i].status = "returned"
                /\ i \notin OverdueListed(o.rentals, now, limit, tie)

\* the overdue listing has just answered one Rental of one, with a Rental
\* stored as active past its dueDate and a returned Rental whose dueDate has
\* passed as well
C27_Witness ==
  /\ last.op = "getOverdueRentals"
  /\ last.code = 200
  /\ last.data.totalItems = 1
  /\ Len(last.data.items) = 1
  /\ \E i, j \in DOMAIN rentals :
       /\ rentals[i].status = "active" /\ rentals[i].dueDate < now
       /\ rentals[j].status = "returned" /\ rentals[j].dueDate < now

\* C28: under every interleaving of the awaits of concurrent rent and
\* returnBook requests, every stored Book has
\* 0 <= availableCopies <= totalCopies.
C28_CopiesInRangeUnderRaces ==
  \A b \in DOMAIN books :
    books[b].availableCopies >= 0 /\ books[b].availableCopies <= books[b].totalCopies

\* a rent and a return of the same Book have both written its count from
\* the same loaded count: one of the two updates is lost
C28_Witness ==
  \E c1, c2 \in CallIds :
    /\ RentTaken(c1)
    /\ ReturnGiven(c2)
    /\ calls[c1].bookId = calls[c2].bookId
    /\ calls[c1].seen.availableCopies = calls[c2].seen.availableCopies

\* C29: two returnBook requests for the same Rental that have both given
\* their copy back (and are about to answer 200) have written the same
\* availableCopies: the copy is given back once.
C29_CopyReturnedOnce ==
  \A c1, c2 \in CallIds :
    (/\ c1 # c2
     /\ ReturnGiven(c1) /\ ReturnGiven(c2)
     /\ calls[c1].rentalId = calls[c2].rentalId) =>
      calls[c1].book.availableCopies = calls[c2].book.availableCopies

\* C30: once returnBook has stored a Rental as returned (status returned,
\* returnDate stamped), no later write of a concurrent updateRentalStatus
\* request sets its status to active or overdue.
C30_ReturnedTerminalUnderRaces ==
  [][\A i \in DOMAIN rentals :
       (rentals[i].status = "returned" /\ rentals[i].returnDate # NoDate) =>
         rentals'[i].status = "returned"]_vars

====
